---- MODULE Spec2Model ----
(***************************************************************************)
(* Per-tick evaluation pipeline of tick_backtest.                          *)
(*                                                                         *)
(*  Part I   the per-symbol tick loop (signal generator and position       *)
(*           lifecycle): specification Spec / FairSpec                     *)
(*  Part II  MetricsManager.update_all (the snapshot composition):         *)
(*           specification SpecMgr                                         *)
(*                                                                         *)
(* Prices, pip distances and timestamps are integers (pip_size = 1,        *)
(* seconds); NaN is a sentinel no finite quantity of the model takes.      *)
(***************************************************************************)
EXTENDS Integers, Sequences, FiniteSets, TLC

\* ------------------------------------------------------------ numeric base
NaN == -999
PosInf == 998
NegInf == -998

IsFinite(x) == x \notin {NaN, PosInf, NegInf}

\* ------------------------------------------------------------------ bounds
MaxTicks == 2
NMetrics == 2

\* Domains the producer, the snapshot and the engine draw their values from.
Dts == {0, 1}
Bids == {1, 2}
Spreads == {0, 1}
Warmups == {0, 1}
Pips == {0, 1}
Timeouts == {NaN, 1}

VARIABLES
    pc,          \* "running" | "done" | "failed" | "aborted"
    cfg,         \* run configuration (warmup, predicates, engine parameters)
    run_start,   \* timestamp the run starts at
    nticks,      \* ticks consumed from the producer
    tick,        \* the last tick delivered
    snapshot,    \* truth of each predicate on the manager's current snapshot
    position,    \* "FLAT" | "LONG" | "SHORT"
    pos,         \* attributes of the open position
    trades,      \* the trade sink: records in emission order
    opens,       \* number of transitions FLAT -> LONG/SHORT so far
    closes,      \* number of transitions LONG/SHORT -> FLAT so far
    updates,     \* number of MetricsManager.update_all calls so far
    steps,       \* the steps the loop took on the last tick, in order
    m_names,     \* MetricsManager: metric.name of each metric
    m_values,    \* MetricsManager: each metric's current value()
    key_cache,   \* MetricsManager._key_cache
    full_key_cache, \* MetricsManager._full_key_cache
    m_snapshot,  \* MetricsManager._snapshot
    m_updated,   \* update_all has been called
    m_removed,   \* the snapshot keys the last update_all removed
    m_order,     \* the metrics the last update_all updated, in order
    m_call,      \* the last call on the manager or step of its caller
    m_ret,       \* the dictionary the last update_all / current returned
    m_held,      \* a dictionary returned earlier, which the caller kept
    self,        \* the fields of the object a component specification is about
    io           \* the last call on that object: its arguments and its result

loopVars == <<pc, cfg, run_start, nticks, tick, snapshot, position, pos,
              trades, opens, closes, updates, steps>>
mgrVars == <<m_names, m_values, key_cache, full_key_cache, m_snapshot,
             m_updated, m_removed, m_order, m_call, m_ret, m_held>>
partVars == <<self, io>>
vars == <<loopVars, mgrVars, partVars>>

\* ====================================================================
\* Part I: the tick loop
\* ====================================================================

PredKeys == {"a", "b"}

EntryLists == {<<"a">>}
ExitLists == {<<>>, <<"b">>}

Outcomes == {"TP", "SL", "TIMEOUT", "EXIT_PREDICATE", "REVERSAL", "END_OF_FEED"}

NoPos == [direction |-> 0, entry_timestamp |-> NaN, entry_price |-> NaN,
          tp_price |-> NaN, sl_price |-> NaN, timeout_seconds |-> NaN]

NoTick == [timestamp |-> NaN, bid |-> NaN, ask |-> NaN]

NoSignal == [open |-> FALSE, direction |-> 0, tp_price |-> NaN, sl_price |-> NaN]

\* The <<tp_price, sl_price>> an engine may supply with an OPEN: none
\* (non-finite, so the loop recomputes them) or finite levels.
LevelPairs == {<<NaN, NaN>>, <<1, 2>>}

EngineSignals ==
    {NoSignal} \cup
    {[open |-> TRUE, direction |-> d, tp_price |-> lv[1], sl_price |-> lv[2]] :
        d \in {1, -1}, lv \in LevelPairs}

Configs ==
    {[warmup_seconds |-> w, entry_predicates |-> en, exit_predicates |-> ex,
      tp_pips |-> p, sl_pips |-> p, trade_timeout_seconds |-> to] :
        w \in Warmups, en \in EntryLists, ex \in ExitLists, p \in Pips,
        to \in Timeouts}

\* A predicate list is the AND of its elements; the empty list is true.
EvalPredicates(list, snap) == \A i \in 1..Len(list) : snap[list[i]]

InWarmup(tk) == tk.timestamp - run_start < cfg.warmup_seconds

TPHit(p, tk) ==
    /\ IsFinite(p.tp_price)
    /\ IF p.direction = 1 THEN tk.bid >= p.tp_price ELSE tk.ask <= p.tp_price

SLHit(p, tk) ==
    /\ IsFinite(p.sl_price)
    /\ IF p.direction = 1 THEN tk.bid <= p.sl_price ELSE tk.ask >= p.sl_price

TimedOut(p, tk) ==
    /\ IsFinite(p.timeout_seconds)
    /\ tk.timestamp - p.entry_timestamp >= p.timeout_seconds

ExitPredicatesHold(snap) == EvalPredicates(cfg.exit_predicates, snap)

\* Mutant: the stop-loss is tested before the take-profit.
ExitOutcome_SLFirst(p, tk, snap) ==
    IF SLHit(p, tk) THEN "SL"
    ELSE IF TPHit(p, tk) THEN "TP"
    ELSE IF TimedOut(p, tk) THEN "TIMEOUT"
    ELSE IF ExitPredicatesHold(snap) THEN "EXIT_PREDICATE"
    ELSE "NONE"

\* The exits in evaluation order; "NONE" when no exit condition holds.
ExitOutcome(p, tk, snap) ==
    IF TPHit(p, tk) THEN "TP"
    ELSE IF SLHit(p, tk) THEN "SL"
    ELSE IF TimedOut(p, tk) THEN "TIMEOUT"
    ELSE IF ExitPredicatesHold(snap) THEN "EXIT_PREDICATE"
    ELSE "NONE"

ExitPrice(p, tk) == IF p.direction = 1 THEN tk.bid ELSE tk.ask

EntryPrice(d, tk) == IF d = 1 THEN tk.ask ELSE tk.bid

\* Mutant: the record's entry and exit timestamps are exchanged.
MakeTrade_Swapped(p, tk, outcome) ==
    [entry_timestamp |-> tk.timestamp,
     exit_timestamp |-> p.entry_timestamp,
     entry_price |-> p.entry_price,
     exit_price |-> ExitPrice(p, tk),
     direction |-> p.direction,
     pnl |-> (ExitPrice(p, tk) - p.entry_price) * p.direction,
     holding_seconds |-> tk.timestamp - p.entry_timestamp,
     outcome |-> outcome,
     entry_metadata |-> [tp_price |-> p.tp_price, sl_price |-> p.sl_price,
                         timeout_seconds |-> p.timeout_seconds]]

MakeTrade(p, tk, outcome) ==
    [entry_timestamp |-> p.entry_timestamp,
     exit_timestamp |-> tk.timestamp,
     entry_price |-> p.entry_price,
     exit_price |-> ExitPrice(p, tk),
     direction |-> p.direction,
     pnl |-> (ExitPrice(p, tk) - p.entry_price) * p.direction,
     holding_seconds |-> tk.timestamp - p.entry_timestamp,
     outcome |-> outcome,
     entry_metadata |-> [tp_price |-> p.tp_price, sl_price |-> p.sl_price,
                         timeout_seconds |-> p.timeout_seconds]]

\* Mutant: a forced close at the end of the feed emits no record.
EmitTrade_DropForced(ledger, rec) ==
    IF rec.outcome = "END_OF_FEED" THEN ledger ELSE Append(ledger, rec)

EmitTrade(ledger, rec) == Append(ledger, rec)

\* The loop's position state, threaded through the steps of one tick.
LoopState ==
    [pc |-> pc, position |-> position, pos |-> pos, trades |-> trades,
     opens |-> opens, closes |-> closes, steps |-> <<>>]

Log(st, what) == [st EXCEPT !.steps = Append(@, what)]

\* Transition LONG/SHORT -> FLAT, emitting the trade.  Closing with no open
\* position is an InvariantViolation.
ClosePosition(st, tk, outcome) ==
    IF st.position = "FLAT"
    THEN [st EXCEPT !.pc = "aborted"]
    ELSE [Log(st, "close") EXCEPT
            !.trades = EmitTrade(st.trades, MakeTrade(st.pos, tk, outcome)),
            !.position = "FLAT",
            !.pos = NoPos,
            !.closes = @ + 1]

\* TP/SL supplied by the engine are adopted if finite, otherwise recomputed
\* from the pip distances off the entry price (distance 0: unset).
TradeLevel(supplied, entry, pips, sign) ==
    IF IsFinite(supplied) THEN supplied
    ELSE IF pips = 0 THEN NaN
    ELSE entry + sign * pips

\* Transition FLAT -> LONG/SHORT.  Opening with a position already open is an
\* InvariantViolation.
OpenPosition(st, tk, sg) ==
    IF st.position # "FLAT"
    THEN [st EXCEPT !.pc = "aborted"]
    ELSE LET entry == EntryPrice(sg.direction, tk)
         IN [Log(st, "open") EXCEPT
               !.position = IF sg.direction = 1 THEN "LONG" ELSE "SHORT",
               !.pos = [direction |-> sg.direction,
                        entry_timestamp |-> tk.timestamp,
                        entry_price |-> entry,
                        tp_price |-> TradeLevel(sg.tp_price, entry, cfg.tp_pips,
                                                sg.direction),
                        sl_price |-> TradeLevel(sg.sl_price, entry, cfg.sl_pips,
                                                -sg.direction),
                        timeout_seconds |-> cfg.trade_timeout_seconds],
               !.opens = @ + 1]

\* Step 3: with a position open, evaluate the exits in order.
ExitStep(st, tk, snap) ==
    IF st.position = "FLAT" THEN st
    ELSE LET outcome == ExitOutcome(st.pos, tk, snap)
             st1 == Log(st, "exit_eval")
         IN IF outcome = "NONE" THEN st1 ELSE ClosePosition(st1, tk, outcome)

\* Mutant: entries are evaluated whatever the position.
EntryAllowed_Always(st) == TRUE

\* Whether step 4 evaluates entries for the loop state left by step 3.
EntryAllowed(st) == st.position = "FLAT"

\* Step 4: if FLAT (including just closed), evaluate the entry predicates and,
\* if all hold, ask the engine.
EntryStep(st, tk, snap, sg) ==
    IF st.pc # "running" \/ ~EntryAllowed(st) THEN st
    ELSE LET st1 == Log(st, "entry_eval")
         IN IF ~EvalPredicates(cfg.entry_predicates, snap) THEN st1
            ELSE LET st2 == Log(st1, "engine")
                 IN IF sg.open THEN OpenPosition(st2, tk, sg) ELSE st2

\* Mutant: entries are evaluated before exits.
OnTick_EntryFirst(st, tk, snap, sg) ==
    LET st0 == Log(st, "metrics")
    IN IF InWarmup(tk) THEN st0
       ELSE ExitStep(EntryStep(st0, tk, snap, sg), tk, snap)

\* Mutant: the warmup test is missing.
OnTick_NoWarmup(st, tk, snap, sg) ==
    EntryStep(ExitStep(Log(st, "metrics"), tk, snap), tk, snap, sg)

\* Mutant: the metrics are updated after the exits and entries were evaluated.
OnTick_MetricsLast(st, tk, snap, sg) ==
    IF InWarmup(tk) THEN Log(st, "metrics")
    ELSE Log(EntryStep(ExitStep(st, tk, snap), tk, snap, sg), "metrics")

\* Steps 2-4 of one tick, after the metrics update.
OnTick(st, tk, snap, sg) ==
    LET st0 == Log(st, "metrics")
    IN IF InWarmup(tk) THEN st0
       ELSE EntryStep(ExitStep(st0, tk, snap), tk, snap, sg)

Install(st) ==
    /\ pc' = st.pc
    /\ position' = st.position
    /\ pos' = st.pos
    /\ trades' = st.trades
    /\ opens' = st.opens
    /\ closes' = st.closes
    /\ steps' = st.steps

\* next_tick() delivers a tick: timestamps non-decreasing, bid <= ask.
Tick ==
    /\ pc = "running"
    /\ nticks < MaxTicks
    /\ \E dt \in Dts, b \in Bids, sp \in Spreads,
          snap \in [PredKeys -> BOOLEAN], sg \in EngineSignals :
          LET last == IF nticks = 0 THEN run_start ELSE tick.timestamp
              tk == [timestamp |-> last + dt, bid |-> b, ask |-> b + sp]
          IN /\ tick' = tk
             /\ snapshot' = snap
             /\ nticks' = nticks + 1
             /\ updates' = updates + 1
             /\ Install(OnTick(LoopState, tk, snap, sg))
    /\ UNCHANGED <<cfg, run_start, mgrVars, partVars>>

\* Mutant: the end of the feed leaves the position as it is.
ForceClose_Skip(st, tk) == st

\* Step 5: force-close any open position at the last known bid/ask.
ForceClose(st, tk) ==
    IF st.position = "FLAT" THEN st ELSE ClosePosition(st, tk, "END_OF_FEED")

\* next_tick() signals the end of the feed.
EndOfFeed ==
    /\ pc = "running"
    /\ LET st1 == ForceClose(Log(LoopState, "end_of_feed"), tick)
       IN Install([st1 EXCEPT !.pc = IF st1.pc = "running" THEN "done" ELSE @])
    /\ UNCHANGED <<cfg, run_start, nticks, tick, snapshot, updates, mgrVars, partVars>>

\* next_tick() fails: the loop ends and the coordinator records the failure.
ProducerError ==
    /\ pc = "running"
    /\ pc' = "failed"
    /\ UNCHANGED <<cfg, run_start, nticks, tick, snapshot, position, pos,
                   trades, opens, closes, updates, steps, mgrVars, partVars>>

\* ====================================================================
\* Part II: MetricsManager
\* ====================================================================

\* Strings are sequences of characters; a metric's value() is an ordered
\* dictionary, a sequence of <<field, value>> pairs with distinct fields.
MetricNames == << <<"m">>, <<"m", ".", "n">>, <<"n">>, <<"n", ".", "m">> >>

Fields == {<<"x">>, <<"y">>}

FieldValues == {0, 1}

IsDict(d) == \A j, k \in DOMAIN d : j # k => d[j][1] # d[k][1]

ValueDicts ==
    {<<>>}
    \cup {<< <<f, v>> >> : f \in Fields, v \in FieldValues}
    \cup {d \in {<< <<f, v>>, <<g, w>> >> :
                    f \in Fields, v \in FieldValues,
                    g \in Fields, w \in FieldValues} :
            IsDict(d)}

Range(seq) == {seq[j] : j \in DOMAIN seq}

EmptyDict == [k \in {} |-> 0]

\* tuple(values.keys())
Keys(values) == [j \in DOMAIN values |-> values[j][1]]

\* values.get(key)
Get(values, key) ==
    IF \E j \in DOMAIN values : values[j][1] = key
    THEN values[CHOOSE j \in DOMAIN values : values[j][1] = key][2]
    ELSE NaN

\* f"{metric_name}.{key}"
FullKey(metric_name, key) == metric_name \o <<".">> \o key

\* The cached keys are stale: none cached, another count, or another key or
\* order of keys.
NeedsRefresh(keys, values) ==
    \/ keys = <<>>
    \/ Len(values) # Len(keys)
    \/ \E idx \in DOMAIN values : values[idx][1] # keys[idx]

\* Mutant: the keys a metric no longer emits stay in the snapshot.
PopObsolete_Keep(snap, obsolete) == snap

\* self._snapshot.pop(obsolete, None) for every obsolete key
PopObsolete(snap, obsolete) == [k \in (DOMAIN snap) \ obsolete |-> snap[k]]

\* self._snapshot[full_key] = value
SetItem(snap, full_key, value) ==
    [k \in (DOMAIN snap) \cup {full_key} |->
        IF k = full_key THEN value ELSE snap[k]]

\* for key, full_key in zip(keys, full_keys): snapshot[full_key] = values.get(key)
RECURSIVE WriteValues(_, _, _, _, _)
WriteValues(snap, keys, full_keys, values, j) ==
    IF j > Len(keys) \/ j > Len(full_keys) THEN snap
    ELSE WriteValues(SetItem(snap, full_keys[j], Get(values, keys[j])),
                     keys, full_keys, values, j + 1)

\* One iteration of update_all's loop: metric i has been updated and its
\* value() is `values`.
UpdateMetric(st, i, values) ==
    LET old_keys == st.key_cache[i]
        old_full == st.full_key_cache[i]
        refresh == NeedsRefresh(old_keys, values)
        keys == IF refresh THEN Keys(values) ELSE old_keys
        full_keys == IF refresh
                     THEN [j \in DOMAIN keys |-> FullKey(m_names[i], keys[j])]
                     ELSE old_full
        popped == IF refresh
                  THEN PopObsolete(st.snapshot,
                                   Range(old_full) \ Range(full_keys))
                  ELSE st.snapshot
    IN [order |-> Append(st.order, i),
        key_cache |-> [st.key_cache EXCEPT ![i] = keys],
        full_key_cache |-> [st.full_key_cache EXCEPT ![i] = full_keys],
        snapshot |-> WriteValues(popped, keys, full_keys, values, 1)]

\* for i in range(count), in list order
RECURSIVE UpdateFrom(_, _, _)
UpdateFrom(st, vals, i) ==
    IF i > Len(m_names) THEN st
    ELSE UpdateFrom(UpdateMetric(st, i, vals[i]), vals, i + 1)

\* A dictionary object: its content, and whether it is the manager's own
\* _snapshot object (every write to either is then a write to both).
NoDict == [shared |-> FALSE, val |-> EmptyDict]

\* Mutant: the manager hands out its own dictionary.
ReturnDict_Alias(snap) == [shared |-> TRUE, val |-> snap]

\* return dict(self._snapshot): a new dictionary with the same items
ReturnDict(snap) == [shared |-> FALSE, val |-> snap]

\* What a dictionary object holds once the manager's snapshot is `snap`.
Aliased(d, snap) == IF d.shared THEN [d EXCEPT !.val = snap] ELSE d

\* MetricsManager.update_all(tick): every metric is updated with the tick (its
\* value() becomes vals[i], drawn from `inputs`), the snapshot is rebuilt in
\* place and a copy of it returned.
UpdateAllOver(inputs) ==
    /\ \E vals \in inputs :
          LET st == UpdateFrom([order |-> <<>>,
                                key_cache |-> key_cache,
                                full_key_cache |-> full_key_cache,
                                snapshot |-> m_snapshot], vals, 1)
          IN /\ m_values' = vals
             /\ key_cache' = st.key_cache
             /\ full_key_cache' = st.full_key_cache
             /\ m_snapshot' = st.snapshot
             /\ m_removed' = (DOMAIN m_snapshot) \ (DOMAIN st.snapshot)
             /\ m_order' = st.order
             /\ m_ret' = ReturnDict(st.snapshot)
             /\ m_held' = Aliased(m_held, st.snapshot)
    /\ m_updated' = TRUE
    /\ m_call' = "update_all"
    /\ UNCHANGED <<m_names, loopVars, partVars>>

UpdateAll == UpdateAllOver([1..NMetrics -> ValueDicts])

\* The value() assignments of the caller scenario: the first metric emits x,
\* x and y, or nothing; the second y.
FewInputs ==
    {<< d, << <<<<"y">>, 1>> >> >> :
        d \in {<<>>, << <<<<"x">>, 0>> >>, << <<<<"x">>, 1>>, <<<<"y">>, 0>> >>}}

UpdateAllFew == UpdateAllOver(FewInputs)

\* MetricsManager.current(): a copy of the snapshot
Current ==
    /\ m_ret' = ReturnDict(m_snapshot)
    /\ m_call' = "current"
    /\ UNCHANGED <<m_names, m_values, key_cache, full_key_cache, m_snapshot,
                   m_updated, m_removed, m_order, m_held, loopVars, partVars>>

\* The caller keeps the dictionary the last call returned.
KeepReturned ==
    /\ m_call \in {"update_all", "current"}
    /\ m_held' = m_ret
    /\ m_call' = "keep"
    /\ UNCHANGED <<m_names, m_values, key_cache, full_key_cache, m_snapshot,
                   m_updated, m_removed, m_order, m_ret, loopVars, partVars>>

MutKeys == {<<"m", ".", "x">>, <<"z">>}

\* The caller mutates the dictionary it kept: d[k] = 7 or d.pop(k, None).
MutateReturned ==
    /\ m_call \in {"keep", "mutate"}
    /\ \E k \in MutKeys, del \in BOOLEAN :
          LET d == IF del THEN PopObsolete(m_held.val, {k})
                   ELSE SetItem(m_held.val, k, 7)
          IN /\ d # m_held.val
             /\ m_held' = [m_held EXCEPT !.val = d]
             /\ m_snapshot' = IF m_held.shared THEN d ELSE m_snapshot
             /\ m_ret' = IF m_held.shared THEN Aliased(m_ret, d) ELSE m_ret
    /\ m_call' = "mutate"
    /\ UNCHANGED <<m_names, m_values, key_cache, full_key_cache,
                   m_updated, m_removed, m_order, loopVars, partVars>>

\* MetricsManager.__cinit__(metrics), the metrics having unique names
InitMgr ==
    /\ m_names = [i \in 1..NMetrics |-> MetricNames[i]]
    /\ m_values \in [1..NMetrics -> ValueDicts]
    /\ key_cache = [i \in 1..NMetrics |-> <<>>]
    /\ full_key_cache = [i \in 1..NMetrics |-> <<>>]
    /\ m_snapshot = EmptyDict
    /\ m_updated = FALSE
    /\ m_removed = {}
    /\ m_order = <<>>
    /\ m_call = "init"
    /\ m_ret = NoDict
    /\ m_held = NoDict

\* ====================================================================
\* Specifications
\* ====================================================================

\* No component object is under study.
PartIdle == self = <<>> /\ io = <<>>

MgrIdle ==
    /\ m_names = <<>>
    /\ m_values = <<>>
    /\ key_cache = <<>>
    /\ full_key_cache = <<>>
    /\ m_snapshot = EmptyDict
    /\ m_updated = FALSE
    /\ m_removed = {}
    /\ m_order = <<>>
    /\ m_call = "init"
    /\ m_ret = NoDict
    /\ m_held = NoDict

LoopIdle ==
    /\ pc = "done"
    /\ cfg = [warmup_seconds |-> 0, entry_predicates |-> <<>>,
              exit_predicates |-> <<>>, tp_pips |-> 0, sl_pips |-> 0,
              trade_timeout_seconds |-> NaN]
    /\ run_start = 0
    /\ nticks = 0
    /\ tick = NoTick
    /\ snapshot = [k \in PredKeys |-> FALSE]
    /\ position = "FLAT"
    /\ pos = NoPos
    /\ trades = <<>>
    /\ opens = 0
    /\ closes = 0
    /\ updates = 0
    /\ steps = <<>>

InitLoop ==
    /\ pc = "running"
    /\ cfg \in Configs
    /\ run_start = 0
    /\ nticks = 0
    /\ tick = NoTick
    /\ snapshot = [k \in PredKeys |-> FALSE]
    /\ position = "FLAT"
    /\ pos = NoPos
    /\ trades = <<>>
    /\ opens = 0
    /\ closes = 0
    /\ updates = 0
    /\ steps = <<>>

Init == InitLoop /\ MgrIdle /\ PartIdle

Next == Tick \/ EndOfFeed \/ ProducerError

Spec == Init /\ [][Next]_vars

FairSpec == Spec /\ WF_vars(Next)

NextMgr == UpdateAll

InitManager == LoopIdle /\ InitMgr /\ PartIdle

SpecMgr == InitManager /\ [][NextMgr]_vars

\* The manager and a caller that keeps and mutates what it returns.
NextCopy == UpdateAllFew \/ Current \/ KeepReturned \/ MutateReturned

SpecCopy == InitManager /\ [][NextCopy]_vars

\* ====================================================================
\* Part III: predicates
\* ====================================================================

SnapKeys == {"u", "v"}

SnapValues == {-1, 1, NaN, PosInf}

\* The snapshots a predicate is evaluated on: any of the keys may be missing.
Snapshots == UNION {[K -> SnapValues] : K \in SUBSET SnapKeys}

Operators == {"<", "<=", ">", ">=", "==", "!="}

Literals == {0, 1, NaN}

\* {lhs_key, operator, use_abs, rhs}, rhs a literal or a second snapshot key
Predicates ==
    {[lhs_key |-> k, operator |-> o, use_abs |-> a, rhs_kind |-> "value",
      rhs_value |-> v, rhs_key |-> ""] :
        k \in SnapKeys, o \in Operators, a \in BOOLEAN, v \in Literals}
    \cup
    {[lhs_key |-> k, operator |-> o, use_abs |-> a, rhs_kind |-> "other_metric",
      rhs_value |-> 0, rhs_key |-> k2] :
        k \in SnapKeys, o \in Operators, a \in BOOLEAN, k2 \in SnapKeys}

\* The predicates the two-element lists are made of.
ListPredicates ==
    {pr \in Predicates : /\ pr.lhs_key = "u"
                         /\ pr.operator \in {"<", "!="}
                         /\ ~pr.use_abs
                         /\ pr.rhs_value = 0
                         /\ pr.rhs_key \in {"", "v"}}

PredicateLists ==
    {<<>>} \cup {<<pr>> : pr \in Predicates}
           \cup {<<pr, qr>> : pr \in ListPredicates, qr \in ListPredicates}

Abs(x) == IF x < 0 THEN -x ELSE x

Compare(op, l, r) ==
    CASE op = "<" -> l < r
      [] op = "<=" -> l <= r
      [] op = ">" -> l > r
      [] op = ">=" -> l >= r
      [] op = "==" -> l = r
      [] op = "!=" -> l # r

\* Comparison of doubles as the language does it: a NaN operand makes every
\* comparison false and != true.
FloatCompare(op, l, r) ==
    IF l = NaN \/ r = NaN THEN op = "!=" ELSE Compare(op, l, r)

\* snapshot.get(key): <<>> on a miss, <<value>> otherwise
Resolve(snap, key) == IF key \in DOMAIN snap THEN <<snap[key]>> ELSE <<>>

\* Mutant: missing keys are caught, non-finite values are compared.
EvalPredicate_NoFiniteCheck(pr, snap) ==
    LET l == Resolve(snap, pr.lhs_key)
        r == IF pr.rhs_kind = "other_metric" THEN Resolve(snap, pr.rhs_key)
             ELSE <<pr.rhs_value>>
    IN IF l = <<>> \/ r = <<>> THEN FALSE
       ELSE FloatCompare(pr.operator,
                         IF pr.use_abs /\ l[1] # NaN THEN Abs(l[1]) ELSE l[1],
                         r[1])

\* Resolve lhs (miss or non-finite: false); optionally take the absolute
\* value; resolve rhs (miss or non-finite: false); compare.
EvalPredicate(pr, snap) ==
    LET l == Resolve(snap, pr.lhs_key)
    IN IF l = <<>> \/ ~IsFinite(l[1]) THEN FALSE
       ELSE LET lv == IF pr.use_abs THEN Abs(l[1]) ELSE l[1]
                r == IF pr.rhs_kind = "other_metric" THEN Resolve(snap, pr.rhs_key)
                     ELSE <<pr.rhs_value>>
            IN IF r = <<>> \/ ~IsFinite(r[1]) THEN FALSE
               ELSE FloatCompare(pr.operator, lv, r[1])

\* A predicate list is the AND of its elements.
EvalPredicateList(list, snap) ==
    \A i \in DOMAIN list : EvalPredicate(list[i], snap)

\* A compiled predicate list.
InitPredicates ==
    /\ self \in {[predicates |-> list] : list \in PredicateLists}
    /\ io = <<>>

\* The list is evaluated on the current snapshot.
Evaluate ==
    /\ \E snap \in Snapshots :
          io' = [snapshot |-> snap,
                 result |-> EvalPredicateList(self.predicates, snap)]
    /\ UNCHANGED <<self, loopVars, mgrVars>>

InitPred == LoopIdle /\ MgrIdle /\ InitPredicates

NextPred == Evaluate

SpecPred == InitPred /\ [][NextPred]_vars

\* ====================================================================
\* Part IV: entry engines
\* ====================================================================

Directions == {-1, 0, 1}

\* What the threshold-reversion engine reads of the metric's snapshot.
TRSnapshots ==
    {[direction |-> d, tp_price |-> lv[1], sl_price |-> lv[2]] :
        d \in Directions, lv \in LevelPairs}

\* Mutant: the engine does not remember the direction it is in.
TRDecide_NoMemory(st, snap) ==
    [active |-> snap.direction,
     signal |-> IF snap.direction = 0 THEN NoSignal
                ELSE [open |-> TRUE, direction |-> snap.direction,
                      tp_price |-> snap.tp_price, sl_price |-> snap.sl_price]]

\* The threshold-reversion engine on one snapshot: OPEN when the direction is
\* not 0 and the engine is not already long or short in that direction.
TRDecide(st, snap) ==
    IF snap.direction = 0 THEN [active |-> 0, signal |-> NoSignal]
    ELSE IF snap.direction = st.active THEN [active |-> st.active, signal |-> NoSignal]
    ELSE [active |-> snap.direction,
          signal |-> [open |-> TRUE, direction |-> snap.direction,
                      tp_price |-> snap.tp_price, sl_price |-> snap.sl_price]]

InitTREngine ==
    /\ self = [active |-> 0]
    /\ io = [snapshot |-> [direction |-> 0, tp_price |-> NaN, sl_price |-> NaN],
             consulted |-> FALSE, signal |-> NoSignal,
             prev_open |-> 0, prev_seen |-> {}, last_open |-> 0, seen |-> {}]

\* A tick on which the loop asks the engine (FLAT, entry predicates true).
TRConsult ==
    /\ \E snap \in TRSnapshots :
          LET out == TRDecide(self, snap)
          IN /\ self' = [active |-> out.active]
             /\ io' = [snapshot |-> snap, consulted |-> TRUE,
                       signal |-> out.signal,
                       prev_open |-> io.last_open, prev_seen |-> io.seen,
                       last_open |-> IF out.signal.open THEN out.signal.direction
                                     ELSE io.last_open,
                       seen |-> IF out.signal.open THEN {}
                                ELSE io.seen \cup {snap.direction}]
    /\ UNCHANGED <<loopVars, mgrVars>>

\* A tick on which the loop does not ask the engine (warmup, a position is
\* open, or an entry predicate is false).
TRSkip ==
    /\ \E snap \in TRSnapshots :
          io' = [io EXCEPT !.snapshot = snap, !.consulted = FALSE,
                           !.signal = NoSignal,
                           !.prev_open = io.last_open, !.prev_seen = io.seen]
    /\ UNCHANGED <<self, loopVars, mgrVars>>

InitTR == LoopIdle /\ MgrIdle /\ InitTREngine

NextTR == TRConsult \/ TRSkip

SpecTR == InitTR /\ [][NextTR]_vars

\* ------------------------------------------------- EWMA-crossover engine
MaxObs == 4

FastValues == {0, 1, 2, NaN}

SlowValues == {1, NaN}

\* Mutant: the engine signals on the sign of diff, whatever the previous one.
CrossDecide_Level(st, fast, slow) ==
    IF ~IsFinite(fast) \/ ~IsFinite(slow)
    THEN [prev_diff |-> st.prev_diff, direction |-> 0]
    ELSE [prev_diff |-> fast - slow,
          direction |-> IF fast - slow > 0 /\ st.long_on_cross THEN 1
                        ELSE IF fast - slow < 0 /\ st.short_on_cross THEN -1
                        ELSE 0]

\* The EWMA-crossover engine on one observation of (fast, slow): the direction
\* of the OPEN it requests, 0 for none, and the diff it remembers.
CrossDecide(st, fast, slow) ==
    IF ~IsFinite(fast) \/ ~IsFinite(slow)
    THEN [prev_diff |-> st.prev_diff, direction |-> 0]
    ELSE LET diff == fast - slow
         IN [prev_diff |-> diff,
             direction |->
                IF ~IsFinite(st.prev_diff) THEN 0
                ELSE IF st.prev_diff < 0 /\ diff > 0 /\ st.long_on_cross THEN 1
                ELSE IF st.prev_diff > 0 /\ diff < 0 /\ st.short_on_cross THEN -1
                ELSE 0]

InitCrossEngine ==
    /\ self \in {[prev_diff |-> NaN, long_on_cross |-> l, short_on_cross |-> s] :
                    l \in BOOLEAN, s \in BOOLEAN}
    /\ io = [diffs |-> <<>>, signals |-> <<>>]

\* The loop asks the engine on a tick; io records the diffs it was shown and
\* the directions it signalled.
CrossConsult ==
    /\ Len(io.diffs) < MaxObs
    /\ \E fast \in FastValues, slow \in SlowValues :
          LET out == CrossDecide(self, fast, slow)
          IN /\ self' = [self EXCEPT !.prev_diff = out.prev_diff]
             /\ io' = [diffs |-> Append(io.diffs,
                                        IF IsFinite(fast) /\ IsFinite(slow)
                                        THEN fast - slow ELSE NaN),
                       signals |-> Append(io.signals, out.direction)]
    /\ UNCHANGED <<loopVars, mgrVars>>

InitCross == LoopIdle /\ MgrIdle /\ InitCrossEngine

NextCross == CrossConsult

SpecCross == InitCross /\ [][NextCross]_vars

\* ====================================================================
\* Part V.  TimeRollingWindow and the z-score metric
\*          (metrics/primitives/_base_metric.pyx,
\*           metrics/indicators/_session_metric.pyx)
\*
\* The window's fields and arguments are C doubles.  A double is modelled
\* as a binary floating-point number m * 2^e with a significand of
\* Precision bits (|m| < 2^Precision, normalised so that
\* |m| >= 2^(Precision-1), or m = e = 0), every operation rounding its
\* exact result to the nearest such number, ties to even, with no bound
\* on the exponent.  NAN is a value outside the numbers.  The ring
\* buffer (ts/val/dt arrays, head, size, capacity) is modelled as the
\* sequence of its live entries, oldest first.
\* ====================================================================
Precision == 4

RECURSIVE Pow2(_)
Pow2(n) ==
    IF n <= 0 THEN 1 ELSE 2 * Pow2(n - 1)

Zero == [m |-> 0, e |-> 0]

NAN == [m |-> 0, e |-> 1]

isfinite(x) ==
    x # NAN

RoundHalfEven(n, d) ==
    LET q == n \div d
        r == n % d
    IN  IF 2 * r < d THEN q
        ELSE IF 2 * r > d THEN q + 1
        ELSE IF q % 2 = 0 THEN q ELSE q + 1

RECURSIVE DropBits(_, _)
DropBits(a, s) ==
    IF a < Pow2(Precision + s) THEN s ELSE DropBits(a, s + 1)

\* The double nearest to m * 2^e.
RECURSIVE Norm(_, _)
Norm(m, e) ==
    IF m = 0 THEN Zero
    ELSE LET a == Abs(m)
             sg == IF m < 0 THEN -1 ELSE 1
         IN  IF a < Pow2(Precision - 1) THEN Norm(2 * m, e - 1)
             ELSE LET s == DropBits(a, 0)
                      q == RoundHalfEven(a, Pow2(s))
                  IN  IF q = Pow2(Precision)
                      THEN [m |-> sg * Pow2(Precision - 1), e |-> e + s + 1]
                      ELSE [m |-> sg * q, e |-> e + s]

Num(n) ==
    Norm(n, 0)

FNeg(x) ==
    [m |-> -x.m, e |-> x.e]

fabs(x) ==
    [m |-> Abs(x.m), e |-> x.e]

\* x + y: an operand more than Precision + 2 binary places below the
\* other is less than an eighth of its unit in the last place.
FAdd(x, y) ==
    IF x.m = 0 THEN y
    ELSE IF y.m = 0 THEN x
    ELSE LET hi == IF x.e >= y.e THEN x ELSE y
             lo == IF x.e >= y.e THEN y ELSE x
             d == hi.e - lo.e
         IN  IF d > Precision + 2 THEN hi
             ELSE Norm(hi.m * Pow2(d) + lo.m, lo.e)

FSub(x, y) ==
    FAdd(x, FNeg(y))

FMul(x, y) ==
    Norm(x.m * y.m, x.e + y.e)

\* x / y for y # 0: the quotient to Precision + 2 further places, with a
\* sticky last bit when the division is inexact.
FDiv(x, y) ==
    IF x.m = 0 THEN Zero
    ELSE LET k == Precision + 2
             n == Abs(x.m) * Pow2(k)
             q == n \div Abs(y.m)
             r == n % Abs(y.m)
             sg == IF (x.m < 0) # (y.m < 0) THEN -1 ELSE 1
         IN  IF r = 0 THEN Norm(sg * q, x.e - y.e - k)
             ELSE Norm(sg * (2 * q + 1), x.e - y.e - k - 1)

ISqrt(n) ==
    CHOOSE s \in 0..n : s * s <= n /\ n < (s + 1) * (s + 1)

\* sqrt(x) for x >= 0, rounded the same way.
sqrt(x) ==
    IF x.m = 0 THEN Zero
    ELSE LET odd == x.e % 2 # 0
             m2 == IF odd THEN 2 * x.m ELSE x.m
             e2 == IF odd THEN x.e - 1 ELSE x.e
             n == m2 * Pow2(2 * Precision)
             s == ISqrt(n)
         IN  IF s * s = n THEN Norm(s, (e2 \div 2) - Precision)
             ELSE Norm(2 * s + 1, (e2 \div 2) - Precision - 1)

FLt(x, y) ==
    FSub(x, y).m < 0

FLe(x, y) ==
    FSub(x, y).m <= 0

\* 1e-12, 1e-9 and 1e-6 as doubles of this precision.
EPS == [m |-> 9, e |-> -43]

MIN_DT == [m |-> 9, e |-> -33]

MICRO == [m |-> 8, e |-> -23]

\* ---- TimeRollingWindow ----
\* sum_w -= d; sum_x -= d * v; sum_x2 -= d * v * v
Unweigh(w, d, v) ==
    [w EXCEPT !.sum_w = FSub(@, d),
              !.sum_x = FSub(@, FMul(d, v)),
              !.sum_x2 = FSub(@, FMul(FMul(d, v), v))]

\* The while loop of _trim.
RECURSIVE TrimLoop(_, _)
TrimLoop(w, cutoff) ==
    IF Len(w.entries) = 0 THEN w
    ELSE LET old == Head(w.entries)
             end == FAdd(old.ts, old.dt)
         IN  IF FLe(end, FSub(cutoff, EPS))
             THEN TrimLoop([Unweigh(w, old.dt, old.val)
                               EXCEPT !.entries = Tail(@)], cutoff)
             ELSE IF FLt(old.ts, cutoff) /\ FLt(cutoff, end)
             THEN LET drop0 == FSub(cutoff, old.ts)
                      keep0 == FSub(old.dt, drop0)
                      neg == FLt(keep0, Zero)
                      keep_dt == IF neg THEN Zero ELSE keep0
                      drop_dt == IF neg THEN old.dt ELSE drop0
                  IN  [Unweigh(w, drop_dt, old.val)
                          EXCEPT !.entries[1] =
                              [ts |-> cutoff, val |-> old.val, dt |-> keep_dt]]
             ELSE w

Window_trim(w, ts) ==
    IF Len(w.entries) = 0 THEN w
    ELSE LET t == TrimLoop(w, FSub(ts, w.lookback))
         IN  IF FLt(fabs(t.sum_w), EPS)
             THEN [t EXCEPT !.sum_w = Zero, !.sum_x = Zero, !.sum_x2 = Zero]
             ELSE IF FLt(t.sum_w, Zero) /\ FLt(FNeg(EPS), t.sum_w)
             THEN [t EXCEPT !.sum_w = Zero]
             ELSE t

Window_append(w, ts, value, dt) ==
    IF ~(isfinite(ts) /\ isfinite(value) /\ isfinite(dt)) THEN w
    ELSE LET d == IF FLe(dt, Zero) THEN MIN_DT ELSE dt
         IN  Window_trim(
                 [w EXCEPT !.entries = Append(@, [ts |-> ts, val |-> value, dt |-> d]),
                           !.sum_w = FAdd(@, d),
                           !.sum_x = FAdd(@, FMul(d, value)),
                           !.sum_x2 = FAdd(@, FMul(FMul(d, value), value))],
                 ts)

Window_stats(w) ==
    IF ~isfinite(w.sum_w) \/ FLe(w.sum_w, EPS) THEN <<NAN, NAN>>
    ELSE IF ~isfinite(w.sum_x) \/ ~isfinite(w.sum_x2) THEN <<NAN, NAN>>
    ELSE LET mean == FDiv(w.sum_x, w.sum_w)
             raw == FSub(FDiv(w.sum_x2, w.sum_w), FMul(mean, mean))
         IN  <<mean, sqrt(IF FLt(Zero, raw) THEN raw ELSE Zero)>>

NewWindow(lookback_seconds) ==
    [lookback |-> lookback_seconds, entries |-> <<>>,
     sum_w |-> Zero, sum_x |-> Zero, sum_x2 |-> Zero]

\* ---- The window driven by its caller ----
MaxAppends == 3

Lookbacks == {Num(2), Num(3)}

Stamps == {Num(1), Num(2), Num(4), Num(6), Num(7)}

\* 1.25 and 1.75
WinValues == {Norm(5, -2), Norm(7, -2)}

WinDts == {Zero, Num(1), Num(4)}

InitWindow ==
    /\ self \in {NewWindow(l) : l \in Lookbacks}
    /\ io = [call |-> "init", n |-> 0, now |-> Zero, accepted |-> FALSE,
             hist |-> <<>>]

\* window.append(ts, value, dt) with ts no earlier than the last one.
WindowAppend ==
    /\ io.n < MaxAppends
    /\ \E ts \in Stamps, value \in WinValues \cup {NAN}, dt \in WinDts :
          /\ FLe(io.now, ts)
          /\ self' = Window_append(self, ts, value, dt)
          /\ io' = [call |-> "append", n |-> io.n + 1,
                    now |-> IF isfinite(value) THEN ts ELSE io.now,
                    accepted |-> isfinite(value),
                    hist |-> IF isfinite(value)
                             THEN Append(io.hist, [ts |-> ts, val |-> value, dt |-> dt])
                             ELSE io.hist]
    /\ UNCHANGED <<loopVars, mgrVars>>

InitWin ==
    LoopIdle /\ MgrIdle /\ InitWindow

NextWin ==
    WindowAppend

SpecWin ==
    InitWin /\ [][NextWin]_vars

\* ---- ZScoreMetric ----
\* x - y and x / y where an operand may be NaN (tick.mid is not checked).
NSub(x, y) ==
    IF isfinite(x) /\ isfinite(y) THEN FSub(x, y) ELSE NAN

NDiv(x, y) ==
    IF isfinite(x) /\ isfinite(y) THEN FDiv(x, y) ELSE NAN

NewZScore(lookback_seconds) ==
    [window |-> NewWindow(lookback_seconds), z |-> NAN, resid |-> NAN,
     last_ts |-> Zero, has_last |-> FALSE]

ZScore_update_from_struct(s, t, mid) ==
    LET gap == FSub(t, s.last_ts)
        dt == IF s.has_last
              THEN (IF FLt(gap, MICRO) THEN MICRO ELSE gap)
              ELSE Zero
        w == Window_append(s.window, t, mid, dt)
        mean == Window_stats(w)[1]
        std == Window_stats(w)[2]
    IN  [window |-> w,
         resid |-> IF ~isfinite(mean) THEN NAN ELSE NSub(mid, mean),
         z |-> IF ~isfinite(std) \/ FLe(std, EPS) THEN Zero
               ELSE NDiv(NSub(mid, mean), std),
         last_ts |-> t, has_last |-> TRUE]

MaxZTicks == 4

\* 1.25, 1.75, 1.375 and a mid that is not a number
Mids == {Norm(5, -2), Norm(7, -2), Norm(11, -3), NAN}

InitZScore ==
    /\ self \in {NewZScore(l) : l \in Lookbacks}
    /\ io = [call |-> "init", n |-> 0, ticks |-> <<>>]

\* One tick of the feed (timestamps non-decreasing) given to the metric.
ZScoreUpdate ==
    /\ io.n < MaxZTicks
    /\ \E t \in Stamps, mid \in Mids :
          /\ FLe(self.last_ts, t)
          /\ self' = ZScore_update_from_struct(self, t, mid)
          /\ io' = [call |-> "update", n |-> io.n + 1,
                    ticks |-> Append(io.ticks, [timestamp |-> t, mid |-> mid])]
    /\ UNCHANGED <<loopVars, mgrVars>>

InitZ ==
    LoopIdle /\ MgrIdle /\ InitZScore

NextZ ==
    ZScoreUpdate

SpecZ ==
    InitZ /\ [][NextZ]_vars

\* ====================================================================
\* Part VI.  TimeWeightedHistogram
\*           (metrics/primitives/_time_weighted_histogram.pyx)
\*
\* edges, weights, total and the events' start/end are doubles (Part V);
\* the event ring buffer is the sequence of its live events, oldest
\* first.  Bins are numbered from 0 as in the source; edges[k] of the
\* source is Edges[k + 1] here.
\* ====================================================================
TINY_TOTAL == [m |-> 9, e |-> -33]

RECURSIVE BinSearch(_, _, _, _)
BinSearch(h, x, lo, hi) ==
    IF lo < hi
    THEN LET mid == (lo + hi) \div 2
         IN  IF FLe(h.edges[mid + 2], x) THEN BinSearch(h, x, mid + 1, hi)
             ELSE IF FLt(x, h.edges[mid + 1]) THEN BinSearch(h, x, lo, mid)
             ELSE mid
    ELSE IF lo >= h.n_bins THEN h.n_bins - 1 ELSE lo

Hist_bin_index(h, x) ==
    IF FLe(x, h.edges[1]) THEN 0
    ELSE IF FLe(h.edges[h.n_bins + 1], x) THEN h.n_bins - 1
    ELSE BinSearch(h, x, 0, h.n_bins)

NewHistogram(edges, horizon_seconds) ==
    [edges |-> edges, horizon |-> horizon_seconds, n_bins |-> Len(edges) - 1,
     weights |-> [i \in 1..(Len(edges) - 1) |-> Zero], total |-> Zero,
     events |-> <<>>]

Hist_add(h, start, end, value) ==
    IF FLe(end, start) THEN h
    ELSE LET bin_idx == Hist_bin_index(h, value)
             weight == FSub(end, start)
         IN  [h EXCEPT !.weights[bin_idx + 1] = FAdd(@, weight),
                       !.total = FAdd(@, weight),
                       !.events = Append(@, [start |-> start, end |-> end,
                                             bin |-> bin_idx])]

\* weights[bin] -= drop; total -= drop
Drop(h, bin_idx, drop) ==
    [h EXCEPT !.weights[bin_idx + 1] = FSub(@, drop), !.total = FSub(@, drop)]

\* The while loop of trim.
RECURSIVE HistTrimLoop(_, _)
HistTrimLoop(h, cutoff) ==
    IF Len(h.events) = 0 THEN h
    ELSE LET ev == Head(h.events)
         IN  IF FLe(ev.end, cutoff)
             THEN HistTrimLoop([Drop(h, ev.bin, FSub(ev.end, ev.start))
                                   EXCEPT !.events = Tail(@)], cutoff)
             ELSE IF FLt(ev.start, cutoff) /\ FLt(cutoff, ev.end)
             THEN [Drop(h, ev.bin, FSub(cutoff, ev.start))
                      EXCEPT !.events[1].start = cutoff]
             ELSE h

Hist_trim(h, now) ==
    IF Len(h.events) = 0 THEN h
    ELSE LET t == HistTrimLoop(h, FSub(now, h.horizon))
         IN  IF FLt(t.total, Zero) /\ FLt(fabs(t.total), TINY_TOTAL)
             THEN [t EXCEPT !.total = Zero]
             ELSE t

\* below += weights[i] for i in range(bin_idx)
RECURSIVE Below(_, _)
Below(h, bin_idx) ==
    IF bin_idx = 0 THEN Zero
    ELSE FAdd(Below(h, bin_idx - 1), h.weights[bin_idx])

Hist_percentile_rank(h, x) ==
    IF FLe(h.total, Zero) THEN NAN
    ELSE LET bin_idx == Hist_bin_index(h, x)
             left == h.edges[bin_idx + 1]
             right == h.edges[bin_idx + 2]
             raw == FDiv(FSub(x, left), FSub(right, left))
             frac == IF ~FLt(left, right) THEN Zero
                     ELSE IF FLt(raw, Zero) THEN Zero
                     ELSE IF FLt(Num(1), raw) THEN Num(1)
                     ELSE raw
             in_bin == FMul(h.weights[bin_idx + 1], frac)
         IN  FDiv(FAdd(Below(h, bin_idx), in_bin), h.total)

\* ---- The histogram driven by its caller ----
MaxHistCalls == 3

HistEdges == <<Num(0), Num(1), Num(2), Num(3)>>

Horizons == {Num(1), Num(2)}

\* 0, 0.75, 2, 6.5
HistTimes == {Zero, Norm(3, -2), Num(2), Norm(13, -1)}

\* below the first edge, inside the first, second and third bin, above the
\* last edge
HistValues == {Num(-1), Norm(1, -1), Norm(3, -1), Norm(5, -1), Num(4)}

\* the edges, points inside each bin and points outside the range
Probes == {Num(-1), Zero, Norm(1, -1), Num(1), Norm(3, -1), Num(2),
           Norm(5, -1), Num(3), Num(4)}

InitHistogram ==
    /\ self \in {NewHistogram(HistEdges, hz) : hz \in Horizons}
    /\ io = [call |-> "init", n |-> 0]

HistAdd ==
    /\ io.n < MaxHistCalls
    /\ \E start \in HistTimes, end \in HistTimes, value \in HistValues :
          /\ self' = Hist_add(self, start, end, value)
          /\ io' = [call |-> "add", n |-> io.n + 1]
    /\ UNCHANGED <<loopVars, mgrVars>>

HistTrim ==
    /\ io.n < MaxHistCalls
    /\ \E now \in HistTimes :
          /\ self' = Hist_trim(self, now)
          /\ io' = [call |-> "trim", n |-> io.n + 1]
    /\ UNCHANGED <<loopVars, mgrVars>>

InitHist ==
    LoopIdle /\ MgrIdle /\ InitHistogram

NextHist ==
    HistAdd \/ HistTrim

SpecHist ==
    InitHist /\ [][NextHist]_vars

\* ====================================================================
\* Part VII.  _MonotonicQueue and ThresholdReversionMetric._append_tick
\*            (src/unnamed/part_006)
\*
\* The queues only compare and store their doubles, so times and prices
\* are integers here.  The ring buffer is modelled as it is: arrays of
\* `capacity` slots (slot k of the source is element k + 1), head, size.
\* Slots never written hold Garbage (np.empty).  The metric builds its
\* queues with 64 slots; the model starts them with InitialCapacity so
\* that _ensure_capacity runs within a few ticks.
\* ====================================================================
Garbage == -1

InitialCapacity == 2

NewQueue(initial_capacity, is_max) ==
    [capacity |-> initial_capacity, size |-> 0, head |-> 0, is_max |-> is_max,
     times |-> [k \in 1..initial_capacity |-> Garbage],
     prices |-> [k \in 1..initial_capacity |-> Garbage]]

Queue_ensure_capacity(q, min_capacity) ==
    IF q.capacity >= min_capacity THEN q
    ELSE LET doubled == IF q.capacity > 0 THEN q.capacity * 2 ELSE 16
             new_capacity == IF doubled < min_capacity THEN min_capacity ELSE doubled
             Old(i) == ((q.head + i) % q.capacity) + 1
         IN  [q EXCEPT !.capacity = new_capacity, !.head = 0,
                       !.times = [k \in 1..new_capacity |->
                                     IF k <= q.size THEN q.times[Old(k - 1)] ELSE Garbage],
                       !.prices = [k \in 1..new_capacity |->
                                      IF k <= q.size THEN q.prices[Old(k - 1)] ELSE Garbage]]

\* The tail entry gives way to the new price.
Dominated(q, price) ==
    LET idx == (q.head + q.size - 1) % q.capacity
    IN  IF q.is_max THEN q.prices[idx + 1] <= price ELSE q.prices[idx + 1] >= price

\* The while loop of append.
RECURSIVE PopTail(_, _)
PopTail(q, price) ==
    IF q.size > 0 /\ Dominated(q, price)
    THEN PopTail([q EXCEPT !.size = @ - 1], price)
    ELSE q

Queue_append(q, timestamp, price) ==
    LET p == PopTail(q, price)
        g == IF p.size = p.capacity THEN Queue_ensure_capacity(p, p.capacity + 1) ELSE p
        idx == (g.head + g.size) % g.capacity
    IN  [g EXCEPT !.prices[idx + 1] = price, !.times[idx + 1] = timestamp,
                  !.size = @ + 1]

\* The head entry is older than the cutoff.
Stale_Inclusive(q, cutoff) ==
    q.times[q.head + 1] <= cutoff

Stale(q, cutoff) ==
    q.times[q.head + 1] < cutoff

\* The while loop of trim.
RECURSIVE PopHead(_, _)
PopHead(q, cutoff) ==
    IF q.size > 0 /\ Stale(q, cutoff)
    THEN PopHead([q EXCEPT !.head = (@ + 1) % q.capacity, !.size = @ - 1], cutoff)
    ELSE q

Queue_trim(q, cutoff) ==
    LET p == PopHead(q, cutoff)
    IN  IF p.size = 0 THEN [p EXCEPT !.head = 0] ELSE p

NewTRMetric(lookback_seconds) ==
    [lookback_seconds |-> lookback_seconds,
     max_q |-> NewQueue(InitialCapacity, TRUE),
     min_q |-> NewQueue(InitialCapacity, FALSE)]

TR_append_tick(s, timestamp, mid) ==
    LET cutoff == timestamp - s.lookback_seconds
    IN  [s EXCEPT !.max_q = Queue_trim(Queue_append(@, timestamp, mid), cutoff),
                  !.min_q = Queue_trim(Queue_append(@, timestamp, mid), cutoff)]

\* ---- The metric fed by the tick loop ----
MaxQTicks == 5

QLookbacks == {0, 1, 2}

QStamps == 0..3

QMids == 1..3

InitQueues ==
    /\ self \in {NewTRMetric(l) : l \in QLookbacks}
    /\ io = [call |-> "init", now |-> 0, hist |-> <<>>]

\* One tick (timestamps non-decreasing) through _append_tick.
AppendTick ==
    /\ Len(io.hist) < MaxQTicks
    /\ \E timestamp \in QStamps, mid \in QMids :
          /\ timestamp >= io.now
          /\ self' = TR_append_tick(self, timestamp, mid)
          /\ io' = [call |-> "_append_tick", now |-> timestamp,
                    hist |-> Append(io.hist, [timestamp |-> timestamp, mid |-> mid])]
    /\ UNCHANGED <<loopVars, mgrVars>>

InitQ ==
    LoopIdle /\ MgrIdle /\ InitQueues

NextQ ==
    AppendTick

SpecQ ==
    InitQ /\ [][NextQ]_vars

\* ---- ThresholdReversionMetric ----
\* Prices and distances are whole tenths of a pip and times whole seconds:
\* every comparison and difference of update_from_struct is exact on them.
\* An output cell not yet written holds Garbage.
Unwritten == [ts |-> Garbage, price |-> Garbage]

\* The entry at slot idx meets the magnitude and the age condition.
\* a = [current_price, threshold, is_low, current_timestamp, min_age]
Qualifies_NoAge(q, idx, a) ==
    LET price == q.prices[idx + 1]
        diff == IF a.is_low THEN a.current_price - price ELSE price - a.current_price
    IN  diff >= a.threshold

Qualifies(q, idx, a) ==
    LET price == q.prices[idx + 1]
        diff == IF a.is_low THEN a.current_price - price ELSE price - a.current_price
    IN  diff >= a.threshold /\ a.current_timestamp - q.times[idx + 1] >= a.min_age

\* The while loop of find_candidate, from the entry before the tail
\* towards the head.
RECURSIVE FindScan(_, _, _, _, _)
FindScan(q, idx, remaining, a, out) ==
    IF remaining <= 0 THEN [found |-> FALSE, ts |-> out.ts, price |-> out.price]
    ELSE IF Qualifies(q, idx, a)
         THEN [found |-> TRUE, ts |-> q.times[idx + 1], price |-> q.prices[idx + 1]]
         ELSE FindScan(q, (idx - 1 + q.capacity) % q.capacity, remaining - 1, a, out)

\* The return value and the contents of ts_out, price_out after the call;
\* out is what the two cells held before it.
Queue_find_candidate(q, a, out) ==
    IF q.size < 2 THEN [found |-> FALSE, ts |-> out.ts, price |-> out.price]
    ELSE LET tail == (q.head + q.size - 1) % q.capacity
             idx == (tail - 1 + q.capacity) % q.capacity
         IN  FindScan(q, idx, q.size - 1, a, out)

NewThresholdReversion(lookback_seconds, threshold, pip_size, tp, sl, min_recency) ==
    [lookback_seconds |-> lookback_seconds,
     threshold |-> threshold, pip_size |-> pip_size,
     tp_distance |-> tp, sl_distance |-> sl,
     min_recency |-> min_recency, trade_timeout |-> NaN,
     max_q |-> NewQueue(InitialCapacity, TRUE),
     min_q |-> NewQueue(InitialCapacity, FALSE),
     p_ref |-> NaN, p_ref_time |-> NaN, position_open_time |-> NaN,
     tp_price |-> NaN, sl_price |-> NaN, last_mid |-> NaN, last_timestamp |-> NaN,
     has_ref |-> FALSE, has_last |-> FALSE, position |-> 0]

\* The branches of _find_reference on the two results.
TR_pick_reference(low, high, out) ==
    IF low.found /\ high.found
    THEN IF low.ts >= high.ts THEN low ELSE high
    ELSE IF low.found THEN low
    ELSE IF high.found THEN high
    ELSE [found |-> FALSE, ts |-> out.ts, price |-> out.price]

TR_find_reference_AnyAge(s, current_price, current_time, out) ==
    TR_pick_reference(
        Queue_find_candidate(s.min_q,
            [current_price |-> current_price, threshold |-> s.threshold,
             is_low |-> TRUE, current_timestamp |-> current_time,
             min_age |-> 0], Unwritten),
        Queue_find_candidate(s.max_q,
            [current_price |-> current_price, threshold |-> s.threshold,
             is_low |-> FALSE, current_timestamp |-> current_time,
             min_age |-> 0], Unwritten),
        out)

\* [found, ts, price]: the return value and out_time, out_price.
TR_find_reference(s, current_price, current_time, out) ==
    TR_pick_reference(
        Queue_find_candidate(s.min_q,
            [current_price |-> current_price, threshold |-> s.threshold,
             is_low |-> TRUE, current_timestamp |-> current_time,
             min_age |-> s.min_recency], Unwritten),
        Queue_find_candidate(s.max_q,
            [current_price |-> current_price, threshold |-> s.threshold,
             is_low |-> FALSE, current_timestamp |-> current_time,
             min_age |-> s.min_recency], Unwritten),
        out)

TR_flatten_KeepLevels(s) ==
    [s EXCEPT !.position = 0, !.has_ref = FALSE, !.p_ref = NaN, !.p_ref_time = NaN,
              !.position_open_time = NaN]

TR_flatten(s) ==
    [s EXCEPT !.position = 0, !.has_ref = FALSE, !.p_ref = NaN, !.p_ref_time = NaN,
              !.position_open_time = NaN, !.tp_price = NaN, !.sl_price = NaN]

TR_set_reference_NoFlag(s, price, timestamp) ==
    [s EXCEPT !.p_ref = price, !.p_ref_time = timestamp]

TR_set_reference(s, price, timestamp) ==
    [s EXCEPT !.p_ref = price, !.p_ref_time = timestamp, !.has_ref = TRUE]

TR_set_trade_levels(s, current_price, direction) ==
    IF direction = -1
    THEN [s EXCEPT !.tp_price = current_price - s.tp_distance,
                   !.sl_price = current_price + s.sl_distance]
    ELSE [s EXCEPT !.tp_price = current_price + s.tp_distance,
                   !.sl_price = current_price - s.sl_distance]

\* The side _maybe_open takes: -1, 1, or 0 for neither.
OpenSide_Swapped(s, distance) ==
    IF distance >= s.threshold THEN 1
    ELSE IF distance <= -s.threshold THEN -1
    ELSE 0

OpenSide(s, distance) ==
    IF distance >= s.threshold THEN -1
    ELSE IF distance <= -s.threshold THEN 1
    ELSE 0

TR_maybe_open_KeepTime(s, ref_price, ref_time, current_price, now) ==
    LET side == OpenSide(s, current_price - ref_price)
    IN  IF side = 0 THEN s
        ELSE TR_set_trade_levels(
                 [TR_set_reference(s, ref_price, ref_time) EXCEPT !.position = side],
                 current_price, side)

TR_maybe_open(s, ref_price, ref_time, current_price, now) ==
    LET side == OpenSide(s, current_price - ref_price)
    IN  IF side = 0 THEN s
        ELSE TR_set_trade_levels(
                 [TR_set_reference(s, ref_price, ref_time)
                     EXCEPT !.position = side, !.position_open_time = now],
                 current_price, side)

\* update_from_struct, lines 211-214: the tick is appended and remembered.
TR_remember(s, timestamp, mid) ==
    [TR_append_tick(s, timestamp, mid)
        EXCEPT !.last_mid = mid, !.last_timestamp = timestamp, !.has_last = TRUE]

\* Lines 225-230, on the metric and the reference found: the metric and the
\* reference before `if self.position == 0` (or at the early return).
TR_decide(s, ref) ==
    IF ~ref.found THEN [m |-> TR_flatten(s), ref |-> ref, returned |-> TRUE]
    ELSE IF s.has_ref /\ 10 * Abs(ref.price - s.p_ref) > s.pip_size
         THEN [m |-> TR_flatten(s), ref |-> ref, returned |-> FALSE]
         ELSE [m |-> s, ref |-> ref, returned |-> FALSE]

\* Lines 220-223: a position whose reference the mid has come back to is
\* flattened and the reference is looked for again.
TR_recheck(s, ref, timestamp, mid) ==
    IF s.position # 0 /\ s.has_ref /\ Abs(mid - s.p_ref) <= s.pip_size
    THEN TR_decide(TR_flatten(s), TR_find_reference(TR_flatten(s), mid, timestamp, ref))
    ELSE TR_decide(s, ref)

\* Line 218 onwards, on the metric that has taken the tick in.
TR_search(s, timestamp, mid) ==
    TR_recheck(s, TR_find_reference(s, mid, timestamp, Unwritten), timestamp, mid)

\* update_from_struct up to its last statement.
TR_before_open(s, timestamp, mid) ==
    TR_search(TR_remember(s, timestamp, mid), timestamp, mid)

\* The update reaches `if self.position == 0` with a flat metric.
TR_flat_at_open(b) ==
    ~b.returned /\ b.m.position = 0

\* Lines 232-233.
TR_open_if_flat(b, timestamp, mid) ==
    IF ~b.returned /\ b.m.position = 0
    THEN TR_maybe_open(b.m, b.ref.price, b.ref.ts, mid, timestamp)
    ELSE b.m

TR_update_from_struct(s, timestamp, mid) ==
    TR_open_if_flat(TR_before_open(s, timestamp, mid), timestamp, mid)

TR_value_dict_Reversed(s) ==
    [position |-> s.position,
     reference_price |-> IF s.has_ref THEN s.p_ref ELSE NaN,
     distance_from_reference |->
         IF s.has_ref /\ s.has_last THEN s.p_ref - s.last_mid ELSE NaN,
     reference_age_seconds |->
         IF s.has_ref /\ s.has_last /\ s.p_ref_time # NaN
         THEN s.last_timestamp - s.p_ref_time ELSE NaN,
     threshold |-> s.threshold,
     tp_price |-> s.tp_price, sl_price |-> s.sl_price,
     trade_timeout_seconds |-> s.trade_timeout,
     position_open_age_seconds |->
         IF s.position # 0 /\ s.has_last /\ s.position_open_time # NaN
         THEN s.last_timestamp - s.position_open_time ELSE NaN,
     min_recency_seconds |-> s.min_recency]

TR_value_dict(s) ==
    [position |-> s.position,
     reference_price |-> IF s.has_ref THEN s.p_ref ELSE NaN,
     distance_from_reference |->
         IF s.has_ref /\ s.has_last THEN s.last_mid - s.p_ref ELSE NaN,
     reference_age_seconds |->
         IF s.has_ref /\ s.has_last /\ s.p_ref_time # NaN
         THEN s.last_timestamp - s.p_ref_time ELSE NaN,
     threshold |-> s.threshold,
     tp_price |-> s.tp_price, sl_price |-> s.sl_price,
     trade_timeout_seconds |-> s.trade_timeout,
     position_open_age_seconds |->
         IF s.position # 0 /\ s.has_last /\ s.position_open_time # NaN
         THEN s.last_timestamp - s.position_open_time ELSE NaN,
     min_recency_seconds |-> s.min_recency]

MaxRevTicks == 4

\* one pip is ten units
PipSize == 10

RevLookbacks == {2, 3}

\* 1, 1.5 and 2 pips
RevThresholds == {10, 15, 20}

RevRecencies == {0, 2}

RevStamps == 0..3

RevMids == {0, 1, 20, 21, 40}

InitReversion ==
    /\ self \in {NewThresholdReversion(l, th, PipSize, 10, 20, r) :
                    l \in RevLookbacks, th \in RevThresholds, r \in RevRecencies}
    /\ io = [call |-> "init", before |-> TR_value_dict(self), flat |-> FALSE,
             ticks |-> <<>>]

\* One tick (timestamps non-decreasing) given to the metric; io keeps the
\* snapshot of before the tick and whether the metric was flat when the
\* update came to its last statement.
ReversionUpdate ==
    /\ Len(io.ticks) < MaxRevTicks
    /\ \E timestamp \in RevStamps, mid \in RevMids :
          /\ self.has_last => timestamp >= self.last_timestamp
          /\ self' = TR_update_from_struct(self, timestamp, mid)
          /\ io' = [call |-> "update", before |-> TR_value_dict(self),
                    flat |-> TR_flat_at_open(TR_before_open(self, timestamp, mid)),
                    ticks |-> Append(io.ticks, [timestamp |-> timestamp, mid |-> mid])]
    /\ UNCHANGED <<loopVars, mgrVars>>

InitRev ==
    LoopIdle /\ MgrIdle /\ InitReversion

NextRev ==
    ReversionUpdate

SpecRev ==
    InitRev /\ [][NextRev]_vars

\* ====================================================================
\* Part VIII.  SessionMetric
\*             (metrics/indicators/_session_metric.pyx)
\* ====================================================================
MinutesPerDay == 1440

\* table[minute] of _build_table
TableEntry_LateAsia(minute) ==
    LET hour == minute \div 60
    IN  IF hour > 22 \/ hour < 7 THEN "Asia"
        ELSE IF 7 <= hour /\ hour < 12 THEN "London"
        ELSE IF 12 <= hour /\ hour < 16 THEN "London_New_York_Overlap"
        ELSE IF 16 <= hour /\ hour < 21 THEN "New_York"
        ELSE "Other"

TableEntry(minute) ==
    LET hour == minute \div 60
    IN  IF hour >= 22 \/ hour < 7 THEN "Asia"
        ELSE IF 7 <= hour /\ hour < 12 THEN "London"
        ELSE IF 12 <= hour /\ hour < 16 THEN "London_New_York_Overlap"
        ELSE IF 16 <= hour /\ hour < 21 THEN "New_York"
        ELSE "Other"

SESSION_TABLE ==
    [minute \in 0..(MinutesPerDay - 1) |-> TableEntry(minute)]

Session_update_from_struct(s, hour, minute) ==
    LET raw == hour * 60 + minute
        idx == IF raw < 0 THEN 0
               ELSE IF raw >= MinutesPerDay THEN MinutesPerDay - 1
               ELSE raw
    IN  [s EXCEPT !.session = SESSION_TABLE[idx]]

\* tick.hour and tick.minute, with values outside a day's range
TickHours == -1..24

TickMinutes == {-1, 0, 1, 30, 59, 60}

InitSessionMetric ==
    /\ self = [session |-> "Other"]
    /\ io = [call |-> "init", hour |-> 0, minute |-> 0, before |-> "Other"]

SessionUpdate ==
    /\ \E hour \in TickHours, minute \in TickMinutes :
          /\ self' = Session_update_from_struct(self, hour, minute)
          /\ io' = [call |-> "update", hour |-> hour, minute |-> minute,
                    before |-> self.session]
    /\ UNCHANGED <<loopVars, mgrVars>>

InitSession ==
    LoopIdle /\ MgrIdle /\ InitSessionMetric

NextSession ==
    SessionUpdate

SpecSession ==
    InitSession /\ [][NextSession]_vars

\* ====================================================================
\* Part IX.  TickRateMetric
\*           (metrics/indicators/_session_metric.pyx)
\*
\* The metric stores, compares and subtracts timestamps; they are
\* integers here.
\* ====================================================================
NewTickRate(window_seconds) ==
    [window |-> window_seconds, timestamps |-> <<>>, count |-> 0]

\* while self._timestamps: if self._timestamps[0] <= cutoff: popleft()
RECURSIVE PopExpired(_, _)
PopExpired(ts, cutoff) ==
    IF Len(ts) > 0 /\ Head(ts) <= cutoff THEN PopExpired(Tail(ts), cutoff) ELSE ts

TickRate_update_from_struct(s, timestamp) ==
    LET kept == PopExpired(Append(s.timestamps, timestamp), timestamp - s.window)
    IN  [s EXCEPT !.timestamps = kept, !.count = Len(kept)]

MaxRateTicks == 4

RateWindows == {1, 2}

RateStamps == 0..4

InitTickRate ==
    /\ self \in {NewTickRate(w) : w \in RateWindows}
    /\ io = [call |-> "init", now |-> 0, hist |-> <<>>]

\* One tick (timestamps non-decreasing) given to the metric.
TickRateUpdate ==
    /\ Len(io.hist) < MaxRateTicks
    /\ \E timestamp \in RateStamps :
          /\ timestamp >= io.now
          /\ self' = TickRate_update_from_struct(self, timestamp)
          /\ io' = [call |-> "update", now |-> timestamp,
                    hist |-> Append(io.hist, timestamp)]
    /\ UNCHANGED <<loopVars, mgrVars>>

InitRate ==
    LoopIdle /\ MgrIdle /\ InitTickRate

NextRate ==
    TickRateUpdate

SpecRate ==
    InitRate /\ [][NextRate]_vars

\* ====================================================================
\* Part X.  EWMA, EWMAVolMetric, EWMAMetric, EWMASlopeMetric
\*          (metrics/primitives/_base_metric.pyx,
\*           metrics/indicators/_ewma_vol_metric.pyx, _ewma_metric.pyx,
\*           _ewma_slope_metric.pyx)
\*
\* Doubles as in Part V.  exp and log are modelled on the arguments the
\* model gives them: every tau_seconds is 1 / ln 2, timestamps are whole
\* seconds, so that exp(-dt / tau) = 2^(-dt), and mids given to log are
\* powers of two, so that log(curr / prev) = k * ln 2; both results are
\* rounded into the format like every other operation.
\* ====================================================================
\* ln 2 = 0.693... as a double of this precision
LN2 == [m |-> 11, e |-> -4]

\* The integer a double holds.
IntOf(x) ==
    IF x.e >= 0 THEN x.m * Pow2(x.e) ELSE x.m \div Pow2(-x.e)

\* exp(-dt / tau) for tau = 1 / ln 2 and dt a whole number of seconds or
\* at most a microsecond (2^(-dt) then rounds to 1).
ExpDecay(dt) ==
    IF FLe(dt, MICRO) THEN Num(1) ELSE Norm(1, -IntOf(dt))

\* log(x) for x a power of two.
log(x) ==
    Norm((x.e + Precision - 1) * LN2.m, LN2.e)

safe_logret(curr, prev) ==
    IF FLt(Zero, curr) /\ FLt(Zero, prev) THEN log(FDiv(curr, prev)) ELSE Zero

\* ---- EWMA (primitive) ----
NewEWMA(power) ==
    [power |-> power, y |-> Zero, last_t |-> Zero, has_last |-> FALSE]

\* The state after update(t, x); the call returns its y.
EWMA_update(s, t, x) ==
    IF ~s.has_last THEN [s EXCEPT !.last_t = t, !.has_last = TRUE]
    ELSE LET gap == FSub(t, s.last_t)
             dt == IF FLe(gap, MIN_DT) THEN MIN_DT ELSE gap
             decay == ExpDecay(dt)
             value == IF s.power = 2 THEN FMul(x, x) ELSE x
         IN  [s EXCEPT !.y = FAdd(FMul(decay, s.y), FMul(FSub(Num(1), decay), value)),
                       !.last_t = t]

\* ---- EWMAVolMetric ----
\* np.linspace(0, var_max, bins + 1) for bins = 2, var_max = 2
VolEdges == <<Zero, Num(1), Num(2)>>

NewEWMAVol(percentile_horizon_seconds) ==
    [smoother |-> NewEWMA(2),
     hist |-> NewHistogram(VolEdges, percentile_horizon_seconds),
     last_t |-> Zero, last_mid |-> Zero, has_last |-> FALSE,
     ewma |-> Zero, pct |-> NAN]

EWMAVol_update_from_struct(s, t, mid) ==
    IF ~s.has_last
    THEN [s EXCEPT !.last_t = t, !.last_mid = mid, !.has_last = TRUE]
    ELSE LET gap == FSub(t, s.last_t)
             dt == IF FLt(gap, MICRO) THEN MICRO ELSE gap
             ret == safe_logret(mid, s.last_mid)
             sm == EWMA_update(s.smoother, t, ret)
             h == Hist_trim(Hist_add(s.hist, FSub(t, dt), t, sm.y), t)
         IN  [s EXCEPT !.smoother = sm, !.ewma = sm.y, !.hist = h,
                       !.pct = Hist_percentile_rank(h, sm.y),
                       !.last_t = t, !.last_mid = mid, !.has_last = TRUE]

MaxVolTicks == 4

VolHorizons == {Num(2)}

VolStamps == {Num(0), Num(1), Num(2), Num(3)}

\* 0.5, 1, 2 and two non-positive mids
VolMids == {Norm(1, -1), Num(1), Num(2), Zero, Num(-1)}

InitEWMAVol ==
    /\ self \in {NewEWMAVol(hz) : hz \in VolHorizons}
    /\ io = [call |-> "init", ticks |-> <<>>]

\* One tick (timestamps non-decreasing) given to the metric.
EWMAVolUpdate ==
    /\ Len(io.ticks) < MaxVolTicks
    /\ \E t \in VolStamps, mid \in VolMids :
          /\ FLe(self.last_t, t)
          /\ self' = EWMAVol_update_from_struct(self, t, mid)
          /\ io' = [call |-> "update",
                    ticks |-> Append(io.ticks, [timestamp |-> t, mid |-> mid])]
    /\ UNCHANGED <<loopVars, mgrVars>>

InitVol ==
    LoopIdle /\ MgrIdle /\ InitEWMAVol

NextVol ==
    EWMAVolUpdate

SpecVol ==
    InitVol /\ [][NextVol]_vars

\* ---- EWMAMetric ----
\* The metric built without an initial_value; the selected price of a
\* tick (mid, bid or ask by price_field) is the input of the model.
\* tau_seconds is one of two time constants, named by the base b for which
\* exp(-1 / tau) = b: 1 / ln 2 (b = 1/2) and 1 / ln 1.6 (b = 5/8).
Taus == {"1/ln(2)", "1/ln(1.6)"}

ExpUnit(tau) ==
    IF tau = "1/ln(2)" THEN Norm(1, -1) ELSE Norm(5, -3)

RECURSIVE IPow(_, _)
IPow(b, n) ==
    IF n = 0 THEN 1 ELSE b * IPow(b, n - 1)

\* exp(-dt / tau), correctly rounded, for dt a whole number of seconds or
\* at most a microsecond (the result then rounds to 1).
ExpNeg(dt, tau) ==
    IF FLe(dt, MICRO) THEN Num(1)
    ELSE LET n == IntOf(dt)
             u == ExpUnit(tau)
         IN  Norm(IPow(u.m, n), u.e * n)

NewEWMAMetric(tau_seconds) ==
    [tau |-> tau_seconds, value |-> NAN, last_ts |-> Zero, has_value |-> FALSE]

\* alpha = 1.0 - exp(-dt / tau) for the time passed since last_ts
EWMA_alpha(tau, last_ts, timestamp) ==
    LET gap == FSub(timestamp, last_ts)
        dt == IF FLt(gap, MICRO) THEN MICRO ELSE gap
    IN  FSub(Num(1), ExpNeg(dt, tau))

EWMAMetric_update_from_struct(s, timestamp, price) ==
    IF ~s.has_value
    THEN [s EXCEPT !.value = price, !.last_ts = timestamp, !.has_value = TRUE]
    ELSE LET alpha == EWMA_alpha(s.tau, s.last_ts, timestamp)
         IN  [s EXCEPT !.value = FAdd(FMul(FSub(Num(1), alpha), s.value),
                                      FMul(alpha, price)),
                       !.last_ts = timestamp]

MaxEwmaTicks == 4

EwmaStamps == {Num(0), Num(1), Num(2), Num(3), Num(5)}

\* 1.25, 1.375, 1.875
EwmaPrices == {Norm(5, -2), Norm(11, -3), Norm(15, -3)}

InitEWMAMetric ==
    /\ self \in {NewEWMAMetric(tau) : tau \in Taus}
    /\ io = [call |-> "init", ticks |-> <<>>, alpha |-> NAN]

\* One tick (timestamps non-decreasing) given to the metric.
EWMAUpdate ==
    /\ Len(io.ticks) < MaxEwmaTicks
    /\ \E t \in EwmaStamps, price \in EwmaPrices :
          /\ FLe(self.last_ts, t)
          /\ self' = EWMAMetric_update_from_struct(self, t, price)
          /\ io' = [call |-> "update",
                    ticks |-> Append(io.ticks, [timestamp |-> t, price |-> price]),
                    alpha |-> IF self.has_value THEN EWMA_alpha(self.tau, self.last_ts, t)
                              ELSE NAN]
    /\ UNCHANGED <<loopVars, mgrVars>>

InitEwma ==
    LoopIdle /\ MgrIdle /\ InitEWMAMetric

NextEwma ==
    EWMAUpdate

SpecEwma ==
    InitEwma /\ [][NextEwma]_vars

\* ---- EWMASlopeMetric ----
\* initial_value = NAN stands for None.
NewEWMASlope(tau_seconds, window_seconds, initial_value) ==
    [tau |-> tau_seconds, window |-> window_seconds,
     value |-> initial_value, has_value |-> isfinite(initial_value),
     slope |-> NAN, last_ts |-> Zero, history |-> <<>>]

\* The head entry is older than the cutoff.
SlopeStale_Inclusive(history, cutoff) ==
    FLe(history[1].t, cutoff)

SlopeStale(history, cutoff) ==
    FLt(history[1].t, cutoff)

\* The while loop of update_from_struct: at least one entry stays.
RECURSIVE SlopeTrim(_, _)
SlopeTrim(history, cutoff) ==
    IF Len(history) > 1 /\ SlopeStale(history, cutoff)
    THEN SlopeTrim(Tail(history), cutoff)
    ELSE history

EWMASlope_update_from_struct(s, timestamp, price) ==
    IF ~s.has_value
    THEN [s EXCEPT !.value = price, !.last_ts = timestamp, !.has_value = TRUE,
                   !.history = Append(@, [t |-> timestamp, v |-> price]),
                   !.slope = NAN]
    ELSE LET alpha == EWMA_alpha(s.tau, s.last_ts, timestamp)
             value == FAdd(FMul(FSub(Num(1), alpha), s.value), FMul(alpha, price))
             cutoff == FSub(timestamp, s.window)
             h == SlopeTrim(Append(s.history, [t |-> timestamp, v |-> value]), cutoff)
             gap == FSub(timestamp, h[1].t)
             dt == IF FLt(gap, MICRO) THEN MICRO ELSE gap
         IN  [s EXCEPT !.value = value, !.last_ts = timestamp, !.history = h,
                       !.slope = IF Len(h) < 2 THEN NAN
                                 ELSE FDiv(FSub(value, h[1].v), dt)]

MaxSlopeTicks == 4

SlopeWindows == {Num(1), Num(2)}

SlopeStamps == {Num(0), Num(1), Num(2), Num(3)}

\* 1.25, 1.375
SlopePrices == {Norm(5, -2), Norm(11, -3)}

\* None or 1.25
SlopeInitialValues == {NAN, Norm(5, -2)}

InitEWMASlope ==
    /\ self \in {NewEWMASlope(tau, w, v) :
                    tau \in Taus, w \in SlopeWindows, v \in SlopeInitialValues}
    /\ io = [call |-> "init", ticks |-> <<>>]

\* One tick (timestamps non-decreasing) given to the metric.
EWMASlopeUpdate ==
    /\ Len(io.ticks) < MaxSlopeTicks
    /\ \E t \in SlopeStamps, price \in SlopePrices :
          /\ FLe(self.last_ts, t)
          /\ self' = EWMASlope_update_from_struct(self, t, price)
          /\ io' = [call |-> "update",
                    ticks |-> Append(io.ticks, [timestamp |-> t, price |-> price])]
    /\ UNCHANGED <<loopVars, mgrVars>>

InitSlope ==
    LoopIdle /\ MgrIdle /\ InitEWMASlope

NextSlope ==
    EWMASlopeUpdate

SpecSlope ==
    InitSlope /\ [][NextSlope]_vars

\* ---- EWMAMetric and EWMASlopeMetric on shifted timestamps ----
\* EWMAMetric built with initial_value (NAN stands for None).
NewEWMAMetricFrom(tau_seconds, initial_value) ==
    [tau |-> tau_seconds, value |-> initial_value, last_ts |-> Zero,
     has_value |-> isfinite(initial_value)]

MaxShiftTicks == 3

\* The constant added to every timestamp of the second run.
Shifts == {Num(1), Num(4)}

ShiftStamps == {Num(0), Num(1), Num(2), Num(3)}

\* 1.25, 1.375
ShiftPrices == {Norm(5, -2), Norm(11, -3)}

\* None or 1.75
ShiftInitialValues == {NAN, Norm(7, -2)}

\* Two EWMAMetric and two EWMASlopeMetric objects of the same
\* configuration; the second of each is given the shifted ticks.
InitShifted ==
    /\ \E tau \in Taus, v \in ShiftInitialValues, shift \in Shifts :
          /\ self = [ewma |-> NewEWMAMetricFrom(tau, v),
                     ewma_shifted |-> NewEWMAMetricFrom(tau, v),
                     slope |-> NewEWMASlope(tau, Num(2), v),
                     slope_shifted |-> NewEWMASlope(tau, Num(2), v)]
          /\ io = [call |-> "init", shift |-> shift, now |-> Zero, n |-> 0,
                   initial_value |-> v]

\* One tick (timestamps non-decreasing) given to the four metrics.
ShiftedUpdate ==
    /\ io.n < MaxShiftTicks
    /\ \E t \in ShiftStamps, price \in ShiftPrices :
          /\ FLe(io.now, t)
          /\ self' = [ewma |-> EWMAMetric_update_from_struct(self.ewma, t, price),
                      ewma_shifted |->
                          EWMAMetric_update_from_struct(self.ewma_shifted,
                                                        FAdd(t, io.shift), price),
                      slope |-> EWMASlope_update_from_struct(self.slope, t, price),
                      slope_shifted |->
                          EWMASlope_update_from_struct(self.slope_shifted,
                                                       FAdd(t, io.shift), price)]
          /\ io' = [io EXCEPT !.call = "update", !.now = t, !.n = @ + 1]
    /\ UNCHANGED <<loopVars, mgrVars>>

InitShift ==
    LoopIdle /\ MgrIdle /\ InitShifted

NextShift ==
    ShiftedUpdate

SpecShift ==
    InitShift /\ [][NextShift]_vars

(***************************************************************************)
(* Part XI.  DataFeed: the month files of a pair read row by row.  A file   *)
(* is modelled by its number of rows, a row by its file and index.  The     *)
(* module is compiled with boundscheck=False, so a read outside the loaded  *)
(* arrays is undefined: it yields some value or ends the process.           *)
(***************************************************************************)
MaxFiles == 3
MaxRows == 2
MaxFeedCalls == 6

\* DataFeed.__cinit__: nothing loaded, one path per month of the range.
NewDataFeed(file_paths) ==
    [file_paths |-> file_paths, file_index |-> -1, row_index |-> 0,
     row_count |-> 0, loaded |-> FALSE]

\* DataFeed._load_next_file: the feed after the call and the value returned.
DataFeed_load_next_file(s) ==
    LET s1 == [s EXCEPT !.file_index = @ + 1]
    IN  IF s1.file_index >= Len(s1.file_paths)
        THEN [feed |-> s1, ok |-> FALSE]
        ELSE [feed |-> [s1 EXCEPT !.row_count = s1.file_paths[s1.file_index + 1],
                                  !.row_index = 0,
                                  !.loaded = TRUE],
              ok |-> TRUE]

\* DataFeed._ensure_row.
DataFeed_ensure_row(s) ==
    IF ~s.loaded \/ s.row_index >= s.row_count
    THEN DataFeed_load_next_file(s)
    ELSE [feed |-> s, ok |-> TRUE]

\* No TickRecord was built.
NoRow ==
    [kind |-> "none", file |-> -1, row |-> -1]

\* The outcomes of reading row i of the loaded arrays.
ReadRow(s, i) ==
    IF 0 <= i /\ i < s.row_count
    THEN {[kind |-> "row", file |-> s.file_index, row |-> i]}
    ELSE {[kind |-> k, file |-> s.file_index, row |-> i] : k \in {"garbage", "crash"}}

InitDataFeed ==
    /\ \E n \in 1..MaxFiles : \E file_paths \in [1..n -> 0..MaxRows] :
          self = NewDataFeed(file_paths)
    /\ io = [call |-> "init", i |-> -1, row_count |-> 0, tick |-> NoRow, n |-> 0]

\* DataFeed.tick(): the next row as a TickRecord, or NoMoreTicks.
DataFeed_tick ==
    /\ io.call # "crash"
    /\ io.n < MaxFeedCalls
    /\ LET r == DataFeed_ensure_row(self)
           i == r.feed.row_index
       IN  IF ~r.ok
           THEN /\ self' = r.feed
                /\ io' = [io EXCEPT !.call = "NoMoreTicks", !.tick = NoRow,
                                    !.n = @ + 1]
           ELSE \E rec \in ReadRow(r.feed, i) :
                   /\ self' = [r.feed EXCEPT !.row_index = @ + 1]
                   /\ io' = [call |-> IF rec.kind = "crash" THEN "crash" ELSE "tick",
                             i |-> i, row_count |-> r.feed.row_count,
                             tick |-> rec, n |-> io.n + 1]
    /\ UNCHANGED <<loopVars, mgrVars>>

InitFeed ==
    LoopIdle /\ MgrIdle /\ InitDataFeed

NextFeed ==
    DataFeed_tick

SpecFeed ==
    InitFeed /\ [][NextFeed]_vars

(***************************************************************************)
(* Part XII.  The ring buffers: TimeRollingWindow (ts, val, dt), the event  *)
(* ring of TimeWeightedHistogram (start, end, bin) and _MonotonicQueue      *)
(* (Part VII).  Arrays of `capacity` slots (slot k of the source is         *)
(* element k + 1), head and size, as in the source.  Times are whole        *)
(* seconds: the rings only store them, and the comparisons of trim are      *)
(* exact on them (end <= cutoff - 1e-12 is end < cutoff).  The sums and     *)
(* weights kept beside the rings are those of Parts V and VI.  The source   *)
(* starts the rings with 16 (64) slots; the model starts them with          *)
(* RingCapacity so that growth happens within a few operations.             *)
(***************************************************************************)
RingCapacity == 2

MaxRingOps == 5

RingStamps == 0..3

RingDts == {1, 2}

RingLookbacks == {1, 3}

RingPrices == 0..3

\* the times given to trim: up to the end of the longest interval
RingNows == 0..5

\* A slot of np.empty never written.
NoEntry ==
    [ts |-> Garbage, val |-> Garbage, dt |-> Garbage]

NoEvent ==
    [start |-> Garbage, end |-> Garbage, bin |-> Garbage]

\* ---- TimeRollingWindow ----
NewWindowRing(lookback_seconds, capacity) ==
    [lookback |-> lookback_seconds, capacity |-> capacity, size |-> 0, head |-> 0,
     slots |-> [k \in 1..capacity |-> NoEntry]]

\* Mutant: growth copies slot i to slot i.
WindowRing_ensure_capacity_InPlace(r, min_capacity) ==
    IF r.capacity >= min_capacity THEN r
    ELSE LET doubled == IF r.capacity > 0 THEN r.capacity * 2 ELSE 16
             new_capacity == IF doubled < min_capacity THEN min_capacity ELSE doubled
         IN  [r EXCEPT !.capacity = new_capacity, !.head = 0,
                       !.slots = [k \in 1..new_capacity |->
                                     IF k <= r.size /\ r.capacity > 0
                                     THEN r.slots[k] ELSE NoEntry]]

WindowRing_ensure_capacity(r, min_capacity) ==
    IF r.capacity >= min_capacity THEN r
    ELSE LET doubled == IF r.capacity > 0 THEN r.capacity * 2 ELSE 16
             new_capacity == IF doubled < min_capacity THEN min_capacity ELSE doubled
         IN  [r EXCEPT !.capacity = new_capacity, !.head = 0,
                       !.slots = [k \in 1..new_capacity |->
                                     IF k <= r.size /\ r.capacity > 0
                                     THEN r.slots[((r.head + k - 1) % r.capacity) + 1]
                                     ELSE NoEntry]]

\* The while loop of _trim.
RECURSIVE WindowRing_trim(_, _)
WindowRing_trim(r, cutoff) ==
    IF r.size = 0 THEN r
    ELSE LET old == r.slots[r.head + 1]
             end == old.ts + old.dt
         IN  IF end < cutoff
             THEN WindowRing_trim([r EXCEPT !.head = (@ + 1) % r.capacity,
                                            !.size = @ - 1], cutoff)
             ELSE IF old.ts < cutoff /\ cutoff < end
             THEN [r EXCEPT !.slots[r.head + 1] =
                                [old EXCEPT !.ts = cutoff, !.dt = end - cutoff]]
             ELSE r

\* append(ts, value, dt) for finite arguments and dt > 0.
WindowRing_append(r, ts, value, dt) ==
    LET g == IF r.size = r.capacity
             THEN WindowRing_ensure_capacity(r, r.capacity + 1) ELSE r
        tail == (g.head + g.size) % g.capacity
        w == [g EXCEPT !.slots[tail + 1] = [ts |-> ts, val |-> value, dt |-> dt],
                       !.size = @ + 1]
    IN  WindowRing_trim(w, ts - w.lookback)

\* ---- The event ring of TimeWeightedHistogram ----
NewEventRing(horizon_seconds, capacity) ==
    [horizon |-> horizon_seconds, capacity |-> capacity, size |-> 0, head |-> 0,
     slots |-> [k \in 1..capacity |-> NoEvent]]

Hist_ensure_event_capacity(r, min_capacity) ==
    IF r.capacity >= min_capacity THEN r
    ELSE LET doubled == IF r.capacity > 0 THEN r.capacity * 2 ELSE 16
             new_capacity == IF doubled < min_capacity THEN min_capacity ELSE doubled
         IN  [r EXCEPT !.capacity = new_capacity, !.head = 0,
                       !.slots = [k \in 1..new_capacity |->
                                     IF k <= r.size /\ r.capacity > 0
                                     THEN r.slots[((r.head + k - 1) % r.capacity) + 1]
                                     ELSE NoEvent]]

Hist_append_event(r, start, end, bin_idx) ==
    LET g == IF r.size = r.capacity
             THEN Hist_ensure_event_capacity(r, r.capacity + 1) ELSE r
        tail == (g.head + g.size) % g.capacity
    IN  [g EXCEPT !.slots[tail + 1] = [start |-> start, end |-> end, bin |-> bin_idx],
                  !.size = @ + 1]

\* add(start, end, value) with bin_idx the bin of the value.
Events_add(r, start, end, bin_idx) ==
    IF end <= start THEN r ELSE Hist_append_event(r, start, end, bin_idx)

\* The while loop of trim.
RECURSIVE Events_trim_loop(_, _)
Events_trim_loop(r, cutoff) ==
    IF r.size = 0 THEN r
    ELSE LET old == r.slots[r.head + 1]
         IN  IF old.end <= cutoff
             THEN Events_trim_loop([r EXCEPT !.head = (@ + 1) % r.capacity,
                                             !.size = @ - 1], cutoff)
             ELSE IF old.start < cutoff /\ cutoff < old.end
             THEN [r EXCEPT !.slots[r.head + 1] = [old EXCEPT !.start = cutoff]]
             ELSE r

Events_trim(r, now) ==
    Events_trim_loop(r, now - r.horizon)

\* ---- One of the three rings, driven by its operations ----
InitRings ==
    /\ \/ \E l \in RingLookbacks : self = NewWindowRing(l, RingCapacity)
       \/ \E h \in RingLookbacks : self = NewEventRing(h, RingCapacity)
       \/ \E is_max \in BOOLEAN : self = NewQueue(RingCapacity, is_max)
    /\ io = [call |-> "init", n |-> 0, now |-> 0, before |-> self, entry |-> <<>>]

IsWindowRing ==
    "lookback" \in DOMAIN self

IsEventRing ==
    "horizon" \in DOMAIN self

IsQueueRing ==
    "is_max" \in DOMAIN self

\* TimeRollingWindow.append of an interval ending at a tick.
WindowRingAppend ==
    /\ IsWindowRing
    /\ io.n < MaxRingOps
    /\ \E ts \in RingStamps, dt \in RingDts :
          /\ ts >= io.now
          /\ self' = WindowRing_append(self, ts, io.n, dt)
          /\ io' = [call |-> "append", n |-> io.n + 1, now |-> ts, before |-> self,
                    entry |-> <<[ts |-> ts, val |-> io.n, dt |-> dt]>>]
    /\ UNCHANGED <<loopVars, mgrVars>>

\* TimeWeightedHistogram.add
EventRingAdd ==
    /\ IsEventRing
    /\ io.n < MaxRingOps
    /\ \E start \in RingStamps, dt \in RingDts \cup {0} :
          /\ start >= io.now
          /\ self' = Events_add(self, start, start + dt, io.n)
          /\ io' = [call |-> IF dt > 0 THEN "append" ELSE "skip",
                    n |-> io.n + 1, now |-> start, before |-> self,
                    entry |-> <<[start |-> start, end |-> start + dt, bin |-> io.n]>>]
    /\ UNCHANGED <<loopVars, mgrVars>>

\* TimeWeightedHistogram.trim
EventRingTrim ==
    /\ IsEventRing
    /\ io.n < MaxRingOps
    /\ \E now \in RingNows :
          /\ now >= io.now
          /\ self' = Events_trim(self, now)
          /\ io' = [call |-> "trim", n |-> io.n + 1, now |-> io.now, before |-> self,
                    entry |-> <<>>]
    /\ UNCHANGED <<loopVars, mgrVars>>

\* _MonotonicQueue.append; `before` is the queue as the test for a full
\* buffer finds it, the dominated tail entries popped.
QueueRingAppend ==
    /\ IsQueueRing
    /\ io.n < MaxRingOps
    /\ \E ts \in RingStamps, price \in RingPrices :
          /\ ts >= io.now
          /\ self' = Queue_append(self, ts, price)
          /\ io' = [call |-> "append", n |-> io.n + 1, now |-> ts,
                    before |-> PopTail(self, price),
                    entry |-> <<[ts |-> ts, price |-> price]>>]
    /\ UNCHANGED <<loopVars, mgrVars>>

\* _MonotonicQueue.trim
QueueRingTrim ==
    /\ IsQueueRing
    /\ io.n < MaxRingOps
    /\ \E cutoff \in RingStamps :
          /\ self' = Queue_trim(self, cutoff)
          /\ io' = [call |-> "trim", n |-> io.n + 1, now |-> io.now, before |-> self,
                    entry |-> <<>>]
    /\ UNCHANGED <<loopVars, mgrVars>>

InitRing ==
    LoopIdle /\ MgrIdle /\ InitRings

NextRing ==
    \/ WindowRingAppend
    \/ EventRingAdd
    \/ EventRingTrim
    \/ QueueRingAppend
    \/ QueueRingTrim

SpecRing ==
    InitRing /\ [][NextRing]_vars

\* ====================================================================
\* Properties of the tick loop (Spec, FairSpec)
\* ====================================================================

CountOf(seq, x) == Cardinality({i \in DOMAIN seq : seq[i] = x})

IndexOf(seq, x) == CHOOSE i \in DOMAIN seq : seq[i] = x

LastTrade == trades[Len(trades)]

\* The tick just processed lies in the warmup interval.
TickInWarmup(tk) == tk.timestamp - run_start < cfg.warmup_seconds

\* C1: the position is always exactly one of FLAT, LONG, SHORT and at most one
\* position is open: the opens exceed the closes by one exactly while the
\* position is LONG or SHORT, the attributes of a position exist exactly then,
\* and the loop never applies (or attempts) an OPEN on an open position, so it
\* never ends in an InvariantViolation.
C1_OnePosition ==
    /\ position \in {"FLAT", "LONG", "SHORT"}
    /\ opens - closes = (IF position = "FLAT" THEN 0 ELSE 1)
    /\ (position = "FLAT") <=> (pos = NoPos)
    /\ (position = "LONG") <=> (pos.direction = 1)
    /\ (position = "SHORT") <=> (pos.direction = -1)
    /\ pc # "aborted"

\* A position was closed and another one opened afterwards, and it is open.
C1_Witness == opens = 2 /\ closes = 1 /\ position # "FLAT"

\* C2: the number of trade records equals the number of transitions out of
\* LONG/SHORT, whatever the outcome, and every record has a matching earlier
\* open: the i-th record was emitted for the i-th open.
C2_TradePerClose ==
    /\ Len(trades) = closes
    /\ closes <= opens
    /\ \A i \in DOMAIN trades : trades[i].direction \in {1, -1}

\* Two positions were closed, the second by the end of the feed.
C2_Witness ==
    /\ pc = "done"
    /\ Len(trades) = 2
    /\ trades[2].outcome = "END_OF_FEED"
    /\ trades[1].outcome # "END_OF_FEED"

C4_ExitOrder ==
    [][(pc = "running" /\ nticks' = nticks + 1 /\ position # "FLAT"
          /\ ~TickInWarmup(tick'))
        => LET tp == TPHit(pos, tick')
               sl == SLHit(pos, tick')
               to == TimedOut(pos, tick')
               ep == ExitPredicatesHold(snapshot')
               ClosedAs(o) == /\ Len(trades') = Len(trades) + 1
                              /\ trades'[Len(trades')].outcome = o
           IN /\ tp => ClosedAs("TP")
              /\ (~tp /\ sl) => ClosedAs("SL")
              /\ (~tp /\ ~sl /\ to) => ClosedAs("TIMEOUT")
              /\ (~tp /\ ~sl /\ ~to /\ ep) => ClosedAs("EXIT_PREDICATE")
              /\ (~tp /\ ~sl /\ ~to /\ ~ep)
                    => (trades' = trades /\ position' = position /\ pos' = pos)]_vars

\* A LONG was closed as TP on a tick on which its SL and its timeout held too.
C4_Witness ==
    /\ trades # <<>>
    /\ LastTrade.outcome = "TP"
    /\ LastTrade.direction = 1
    /\ IsFinite(LastTrade.entry_metadata.sl_price)
    /\ LastTrade.exit_price <= LastTrade.entry_metadata.sl_price
    /\ IsFinite(LastTrade.entry_metadata.timeout_seconds)
    /\ LastTrade.holding_seconds >= LastTrade.entry_metadata.timeout_seconds

\* C5 as stated: with an empty exit predicate list no trade is ever emitted
\* with outcome EXIT_PREDICATE.
C5_EmptyExitNeverCloses ==
    cfg.exit_predicates = <<>>
        => \A i \in DOMAIN trades : trades[i].outcome # "EXIT_PREDICATE"

\* C6: a tick inside the warmup interval updates the metrics and does nothing
\* else: no exit or entry evaluation, no position opened, no trade emitted; the
\* position is FLAT and the ledger empty for as long as the warmup lasts.
C6_WarmupOnlyMetrics ==
    [][(pc = "running" /\ nticks' = nticks + 1 /\ TickInWarmup(tick'))
        => /\ updates' = updates + 1
           /\ steps' = <<"metrics">>
           /\ position' = "FLAT" /\ position = "FLAT"
           /\ opens' = 0
           /\ trades' = <<>>]_vars

\* Two warmup ticks were processed on which the entry predicates held.
C6_Witness ==
    /\ nticks = 2
    /\ TickInWarmup(tick)
    /\ EvalPredicates(cfg.entry_predicates, snapshot)
    /\ steps = <<"metrics">>
    /\ updates = 2

\* C7: the loop terminates; the end of the feed ends it with "done", force
\* closing an open position at the last known bid (LONG) or ask (SHORT) with
\* outcome END_OF_FEED, so that after it the position is FLAT and every
\* position ever opened has exactly one trade record.
C7_EndOfFeed ==
    /\ <>(pc # "running")
    /\ [](pc = "done" => (position = "FLAT" /\ Len(trades) = opens))
    /\ [][(pc = "running" /\ nticks' = nticks /\ pc' # "failed")
            => /\ pc' = "done"
               /\ position # "FLAT"
                    => /\ Len(trades') = Len(trades) + 1
                       /\ trades'[Len(trades')].outcome = "END_OF_FEED"
                       /\ trades'[Len(trades')].exit_timestamp = tick.timestamp
                       /\ trades'[Len(trades')].exit_price =
                            (IF position = "LONG" THEN tick.bid ELSE tick.ask)
               /\ position = "FLAT" => trades' = trades]_vars

\* The feed ended with a SHORT open, which was closed at the last ask.
C7_Witness ==
    /\ pc = "done"
    /\ trades # <<>>
    /\ LastTrade.outcome = "END_OF_FEED"
    /\ LastTrade.direction = -1
    /\ LastTrade.exit_price = tick.ask
    /\ tick.ask # tick.bid

StepsAt(names) == {i \in DOMAIN steps : steps[i] \in names}

ExpectedKeys(i) ==
    {m_names[i] \o <<".">> \o m_values[i][j][1] : j \in DOMAIN m_values[i]}

\* C10: after every update_all the snapshot's key set is exactly the set of
\* "{metric.name}.{field}" over every metric and every field of its current
\* value(), and each key maps to that metric's current value of the field (so
\* keys a metric no longer emits are gone and no other metric's key is); the
\* key caches hold the current fields, so that while every metric keeps its
\* field set the key set does not change.
C10_SnapshotKeys ==
    m_updated =>
        /\ DOMAIN m_snapshot = UNION {ExpectedKeys(i) : i \in 1..NMetrics}
        /\ \A i \in 1..NMetrics : \A j \in DOMAIN m_values[i] :
              m_snapshot[m_names[i] \o <<".">> \o m_values[i][j][1]]
                 = m_values[i][j][2]
        /\ \A i \in 1..NMetrics :
              /\ key_cache[i] = Keys(m_values[i])
              /\ Range(full_key_cache[i]) = ExpectedKeys(i)

\* The first metric stopped emitting x and emits y alone, next to a metric
\* that emits both fields, its y having another value: only the first
\* metric's x left the snapshot.
C10_Witness ==
    /\ m_updated
    /\ m_removed = {<<"m", ".", "x">>}
    /\ Keys(m_values[1]) = << <<"y">> >>
    /\ Keys(m_values[2]) = << <<"y">>, <<"x">> >>
    /\ m_values[1][1][2] # m_values[2][1][2]
    /\ DOMAIN m_snapshot = {<<"m", ".", "y">>, <<"m", ".", "n", ".", "y">>,
                            <<"m", ".", "n", ".", "x">>}

\* C11 (update_all): every metric is updated exactly once per update_all, in
\* list order.
C11_MetricOrder == m_updated => m_order = [i \in 1..NMetrics |-> i]

\* C12: update_all and current return a fresh copy of the snapshot: what
\* current returns is the snapshot as update_all left it, whatever the caller
\* did to dictionaries returned before; a caller's mutation of a returned
\* dictionary leaves the manager's snapshot as it is; and a dictionary
\* returned earlier is not changed by a later update_all or current.
C12_ReturnsCopy ==
    /\ [](m_call \in {"update_all", "current"} => m_ret.val = m_snapshot)
    /\ [](m_updated =>
            DOMAIN m_snapshot = UNION {ExpectedKeys(i) : i \in 1..NMetrics})
    /\ [][m_call' = "mutate" => m_snapshot' = m_snapshot]_vars
    /\ [][m_call' \in {"update_all", "current"} => m_held' = m_held]_vars

\* The caller kept a returned dictionary and changed it (d["z"] = 7), the
\* snapshot changed in a later update_all, and current was called.
C12_Witness ==
    /\ m_call = "current"
    /\ <<"z">> \in DOMAIN m_held.val
    /\ <<"m", ".", "x">> \in DOMAIN m_held.val
    /\ <<"m", ".", "x">> \notin DOMAIN m_snapshot
    /\ m_snapshot # EmptyDict

\* ====================================================================
\* Properties of the predicates (SpecPred)
\* ====================================================================

\* The (operator, sign of lhs - rhs) pairs for which a comparison is true.
TruthTable ==
    {<<"<", -1>>, <<"<=", -1>>, <<"<=", 0>>, <<">", 1>>, <<">=", 1>>,
     <<">=", 0>>, <<"==", 0>>, <<"!=", -1>>, <<"!=", 1>>}

Sign(x) == IF x < 0 THEN -1 ELSE IF x > 0 THEN 1 ELSE 0

Usable(snap, key) == key \in DOMAIN snap /\ snap[key] \notin {NaN, PosInf, NegInf}

\* What the claim says predicate pr is on snapshot snap.
Expected(pr, snap) ==
    /\ Usable(snap, pr.lhs_key)
    /\ IF pr.rhs_kind = "other_metric" THEN Usable(snap, pr.rhs_key)
       ELSE pr.rhs_value \notin {NaN, PosInf, NegInf}
    /\ LET l == snap[pr.lhs_key]
           la == IF pr.use_abs /\ l < 0 THEN 0 - l ELSE l
           r == IF pr.rhs_kind = "other_metric" THEN snap[pr.rhs_key]
                ELSE pr.rhs_value
       IN <<pr.operator, Sign(la - r)>> \in TruthTable

\* C13: a predicate is false whenever its lhs key is missing or non-finite or
\* its rhs (literal or second key) is missing or non-finite, for every
\* operator; otherwise it is the comparison of lhs (|lhs| with use_abs) with
\* rhs; and a list is the AND of its elements.
C13_PredicateEval ==
    io # <<>> =>
        (io.result <=>
            \A i \in DOMAIN self.predicates :
                Expected(self.predicates[i], io.snapshot))

\* u != 0 was evaluated with u NaN, and is false.
C13_Witness ==
    /\ io # <<>>
    /\ Len(self.predicates) = 1
    /\ self.predicates[1].operator = "!="
    /\ self.predicates[1].lhs_key = "u"
    /\ self.predicates[1].rhs_kind = "value"
    /\ self.predicates[1].rhs_value = 0
    /\ "u" \in DOMAIN io.snapshot
    /\ io.snapshot["u"] = NaN
    /\ ~io.result

\* ====================================================================
\* Properties of the entry engines (SpecTR, SpecCross)
\* ====================================================================

\* C14: the threshold-reversion engine requests an OPEN only in the metric's
\* current non-zero direction, and after an OPEN in direction d it requests
\* the next OPEN in direction d only once it has observed the direction 0 or
\* -d in a snapshot.
C14_NoRepeatedEntry ==
    io.signal.open =>
        /\ io.consulted
        /\ io.signal.direction = io.snapshot.direction
        /\ io.signal.direction # 0
        /\ io.prev_open = io.signal.direction
              => io.prev_seen \cap {0, 0 - io.signal.direction} # {}

\* The engine opened in direction 1, then saw the direction 1 again and 0, and
\* now opens in direction 1 again.
C14_Witness ==
    /\ io.signal.open
    /\ io.signal.direction = 1
    /\ io.prev_open = 1
    /\ io.prev_seen = {0, 1}

\* The finite observations before observation i.
FiniteBefore(i) == {j \in 1..(i - 1) : io.diffs[j] # NaN}

\* The last finite diff observed before observation i.
PrevFiniteDiff(i) ==
    io.diffs[CHOOSE j \in FiniteBefore(i) : \A k \in FiniteBefore(i) : k <= j]

\* C15: the EWMA-crossover engine signals only on a sign change of diff
\* between two consecutive finite observations, LONG from negative to positive
\* with long_on_cross and SHORT from positive to negative with short_on_cross,
\* and does signal then on adjacent ticks; the first finite observation never
\* signals; diffs -,-,+,+ with long_on_cross give the signals none, none,
\* LONG, none.
C15_CrossoverOnly ==
    /\ \A i \in DOMAIN io.signals :
          /\ io.signals[i] \in {-1, 0, 1}
          /\ io.signals[i] = 1 =>
                /\ self.long_on_cross
                /\ io.diffs[i] # NaN /\ io.diffs[i] > 0
                /\ FiniteBefore(i) # {} /\ PrevFiniteDiff(i) < 0
          /\ io.signals[i] = -1 =>
                /\ self.short_on_cross
                /\ io.diffs[i] # NaN /\ io.diffs[i] < 0
                /\ FiniteBefore(i) # {} /\ PrevFiniteDiff(i) > 0
          /\ (i > 1 /\ io.diffs[i - 1] # NaN /\ io.diffs[i] # NaN) =>
                /\ (io.diffs[i - 1] < 0 /\ io.diffs[i] > 0 /\ self.long_on_cross)
                      => io.signals[i] = 1
                /\ (io.diffs[i - 1] > 0 /\ io.diffs[i] < 0 /\ self.short_on_cross)
                      => io.signals[i] = -1
    /\ (self.long_on_cross /\ io.diffs = <<-1, -1, 1, 1>>)
          => io.signals = <<0, 0, 1, 0>>

\* Diffs -,-,+,+ were observed with long_on_cross: one LONG, at the third.
C15_Witness ==
    /\ self.long_on_cross
    /\ io.diffs = <<-1, -1, 1, 1>>
    /\ io.signals = <<0, 0, 1, 0>>

\* ====================================================================
\* Properties of the TimeRollingWindow (SpecWin) and the z-score metric
\* ====================================================================
Cutoff ==
    FSub(io.now, self.lookback)

InsideWindow(entry) ==
    /\ FLe(Cutoff, entry.ts)
    /\ ~FLe(FAdd(entry.ts, entry.dt), FSub(Cutoff, EPS))

\* C16: after every TimeRollingWindow.append at time now (non-decreasing
\* timestamps, finite inputs) every retained entry has
\* ts >= now - lookback and no retained entry has an end time
\* ts + dt <= cutoff - EPS.
C16_WindowBounds ==
    Len(io.hist) > 0 =>
        \A i \in 1..Len(self.entries) : InsideWindow(self.entries[i])

ConstantMid ==
    /\ Len(io.ticks) > 0
    /\ isfinite(io.ticks[1].mid)
    /\ \A i \in 1..Len(io.ticks) : io.ticks[i].mid = io.ticks[1].mid
    /\ \A i \in 2..Len(io.ticks) :
          FLt(io.ticks[i - 1].timestamp, io.ticks[i].timestamp)

\* C17: with strictly increasing timestamps, positive weights and a
\* constant value C, stats() is (C, 0) whenever the running weight
\* exceeds 1e-12 and (NaN, NaN) otherwise, and the z-score metric fed the
\* constant mid reports z_score = 0 on every tick.
C17_ConstantStats ==
    ConstantMid =>
        /\ Window_stats(self.window) =
               IF FLt(EPS, self.window.sum_w)
               THEN <<io.ticks[1].mid, Zero>>
               ELSE <<NAN, NAN>>
        /\ self.z = Zero

\* ====================================================================
\* Properties of the TimeWeightedHistogram (SpecHist)
\* ====================================================================
Rank(x) ==
    Hist_percentile_rank(self, x)

\* C18: in every state reachable by add and trim, percentile_rank(x) is
\* NaN when total <= 0 and otherwise lies in [0, 1], is monotone
\* non-decreasing in x, is 0 for x <= the first edge and 1 for
\* x >= the last edge.
C18_RankRange ==
    IF FLe(self.total, Zero)
    THEN \A x \in Probes : Rank(x) = NAN
    ELSE /\ \A x \in Probes : FLe(Zero, Rank(x)) /\ FLe(Rank(x), Num(1))
         /\ \A x, y \in Probes : FLe(x, y) => FLe(Rank(x), Rank(y))
         /\ \A x \in Probes : FLe(x, self.edges[1]) => Rank(x) = Zero
         /\ \A x \in Probes :
               FLe(self.edges[self.n_bins + 1], x) => Rank(x) = Num(1)

\* ====================================================================
\* Properties of the monotonic queues (SpecQ)
\* ====================================================================
QHead(q) ==
    q.prices[q.head + 1]

\* The mids appended with a timestamp in [cutoff, now].
InWindow ==
    {io.hist[i].mid : i \in {j \in 1..Len(io.hist) :
        io.hist[j].timestamp >= io.now - self.lookback_seconds}}

\* C19: after each _append_tick at time now neither queue is empty, the
\* max queue's head holds the maximum and the min queue's head the minimum
\* of all mids appended with a timestamp in [now - lookback, now].
C19_QueueHeads ==
    Len(io.hist) > 0 =>
        /\ self.max_q.size > 0
        /\ self.min_q.size > 0
        /\ QHead(self.max_q) \in InWindow
        /\ QHead(self.min_q) \in InWindow
        /\ \A p \in InWindow : QHead(self.min_q) <= p /\ p <= QHead(self.max_q)

\* The window has dropped a larger mid and kept several ticks, and the
\* max queue has outgrown its first buffer.
C19_Witness ==
    /\ Len(io.hist) >= 4
    /\ self.max_q.capacity > InitialCapacity
    /\ \E i \in 1..Len(io.hist) :
          /\ io.hist[i].timestamp < io.now - self.lookback_seconds
          /\ io.hist[i].mid > QHead(self.max_q)
    /\ Cardinality(InWindow) >= 2
    /\ C19_QueueHeads

\* ====================================================================
\* Properties of the SessionMetric (SpecSession)
\* ====================================================================
\* hh:mm as a minute of the day
Clock(hh, mm) ==
    hh * 60 + mm

\* The label the session windows give to a minute of the day.
LabelOf(idx) ==
    IF idx >= Clock(22, 0) \/ idx <= Clock(6, 59) THEN "Asia"
    ELSE IF idx <= Clock(11, 59) THEN "London"
    ELSE IF idx <= Clock(15, 59) THEN "London_New_York_Overlap"
    ELSE IF idx <= Clock(20, 59) THEN "New_York"
    ELSE "Other"

Clamped(idx) ==
    IF idx < 0 THEN 0 ELSE IF idx > 1439 THEN 1439 ELSE idx

\* C20: after every tick the session label is the one the session windows
\* give to the tick's hour * 60 + minute clamped into [0, 1439], whatever
\* the label was before the tick.
C20_SessionLabel ==
    /\ DOMAIN SESSION_TABLE = 0..1439
    /\ io.call = "update" =>
          self.session = LabelOf(Clamped(Clock(io.hour, io.minute)))

\* 21:59 is labelled Other on a tick that follows a tick in the Asia
\* session.
C20_Witness ==
    /\ io.call = "update"
    /\ io.hour = 21
    /\ io.minute = 59
    /\ io.before = "Asia"
    /\ self.session = "Other"

\* ====================================================================
\* Properties of the TickRateMetric (SpecRate)
\* ====================================================================
\* The ticks seen so far with a timestamp on or after the cutoff.
OnOrAfterCutoff ==
    {i \in 1..Len(io.hist) : io.hist[i] >= io.now - self.window}

\* C21: ticks with a timestamp exactly on the cutoff now - window_seconds
\* are retained and counted: tick_count is the number of ticks seen with
\* timestamp >= now - window_seconds.
C21_CutoffRetained ==
    io.call = "update" => self.count = Cardinality(OnOrAfterCutoff)

\* ====================================================================
\* Properties of the EWMA metrics (SpecVol, SpecEwma, SpecSlope)
\* ====================================================================
\* The log return of tick i (i >= 2) is not zero.
Moved(i) ==
    /\ FLt(Zero, io.ticks[i].mid)
    /\ FLt(Zero, io.ticks[i - 1].mid)
    /\ io.ticks[i].mid # io.ticks[i - 1].mid

\* C22: only the first tick is seed-only: every return from the second
\* tick onward contributes to vol_ewma, so once a tick from the second
\* onward has a mid different from its predecessor's (both positive)
\* vol_ewma > 0.
C22_SecondTickCounts ==
    (\E i \in 2..Len(io.ticks) : Moved(i)) => FLt(Zero, self.ewma)

\* ====================================================================
\* More properties of the z-score metric (SpecZ)
\* ====================================================================
LastMid ==
    io.ticks[Len(io.ticks)].mid

\* C23: after each update rolling_residual = mid - mean and
\* z_score = residual / std, or 0 when std <= 1e-12; while the window has
\* no finite stats (mean and std are NaN) both z_score and
\* rolling_residual are NaN.
C23_ResidualAndZ ==
    io.call = "update" =>
        LET mean == Window_stats(self.window)[1]
            std == Window_stats(self.window)[2]
        IN  IF ~isfinite(mean) /\ ~isfinite(std)
            THEN self.z = NAN /\ self.resid = NAN
            ELSE /\ self.resid = NSub(LastMid, mean)
                 /\ self.z = IF FLe(std, EPS) THEN Zero ELSE NDiv(self.resid, std)

PricesSeen ==
    {io.ticks[i].price : i \in DOMAIN io.ticks}

\* C25: with no initial_value the first tick sets ewma to the price and
\* each later tick mixes with alpha in (0, 1]; hence after every tick ewma
\* lies between the least and the greatest price seen so far, and it
\* equals C after every tick when every tick has price C.
C25_EwmaInRange ==
    io.call = "update" =>
        /\ Len(io.ticks) = 1 => self.value = io.ticks[1].price
        /\ isfinite(io.alpha) => FLt(Zero, io.alpha) /\ FLe(io.alpha, Num(1))
        /\ \E lo \in PricesSeen : FLe(lo, self.value)
        /\ \E hi \in PricesSeen : FLe(self.value, hi)

\* ---- ewma_slope (SpecSlope) ----
SlopeNow ==
    io.ticks[Len(io.ticks)].timestamp

SlopeCutoff ==
    FSub(SlopeNow, self.window)

\* The timestamps of the ticks given so far that are not older than the cutoff.
NotOlder ==
    LET Keep(tk) == FLe(SlopeCutoff, tk.timestamp)
        kept == SelectSeq(io.ticks, Keep)
    IN  [i \in DOMAIN kept |-> kept[i].timestamp]

RetainedStamps ==
    [i \in DOMAIN self.history |-> self.history[i].t]

\* x / y of the doubles; a division by zero gives no finite number.
Quotient(x, y) ==
    IF y = Zero THEN NAN ELSE FDiv(x, y)

\* The history after a tick: never empty, exactly the entries not older
\* than now - window_seconds, ending with the entry of this tick.
HistoryKept ==
    /\ Len(self.history) >= 1
    /\ RetainedStamps = NotOlder
    /\ self.history[Len(self.history)] = [t |-> SlopeNow, v |-> self.value]

\* C24 as stated: the history is never empty after the first tick, entries
\* older than now - window_seconds are dropped while at least one is kept,
\* slope is NaN exactly when fewer than 2 entries are retained and
\* otherwise equals (ewma_now - ewma_oldest) / (t_now - t_oldest).
C24_SlopeAsStated ==
    io.call = "update" =>
        /\ HistoryKept
        /\ (self.slope = NAN) <=> (Len(self.history) < 2)
        /\ Len(self.history) >= 2 =>
              self.slope = Quotient(FSub(self.value, self.history[1].v),
                                    FSub(SlopeNow, self.history[1].t))

\* C24 amended: as stated, but the elapsed time of the slope is floored at
\* one microsecond: slope = (ewma_now - ewma_oldest) /
\* max(t_now - t_oldest, 1e-6).
C24_SlopeFloored ==
    io.call = "update" =>
        /\ HistoryKept
        /\ (self.slope = NAN) <=> (Len(self.history) < 2)
        /\ Len(self.history) >= 2 =>
              LET gap == FSub(SlopeNow, self.history[1].t)
              IN  self.slope = FDiv(FSub(self.value, self.history[1].v),
                                    IF FLt(gap, MICRO) THEN MICRO ELSE gap)

\* A stale entry was dropped, two entries of different ewma are retained
\* and the slope is a number other than 0.
C24_Witness ==
    /\ io.call = "update"
    /\ Len(io.ticks) = 4
    /\ Len(self.history) = 2
    /\ isfinite(self.slope)
    /\ self.slope # Zero
    /\ self.history[1].t = SlopeCutoff

\* ====================================================================
\* Properties of the threshold-reversion metric (SpecRev)
\* ====================================================================
\* The k-th entry of a queue, counted from the head (k = 0).
QEntry(q, k) ==
    [t |-> q.times[((q.head + k) % q.capacity) + 1],
     p |-> q.prices[((q.head + k) % q.capacity) + 1]]

\* The positions, other than the tail, of the entries that meet the
\* magnitude and the age condition.
Matching(q, current_price, threshold, is_low, now, min_age) ==
    {k \in 0..(q.size - 2) :
        /\ IF is_low THEN current_price - QEntry(q, k).p >= threshold
                     ELSE QEntry(q, k).p - current_price >= threshold
        /\ now - QEntry(q, k).t >= min_age}

MostRecent(S) ==
    CHOOSE k \in S : \A j \in S : j <= k

\* The times of the calls examined.
Nows == {2, 3}

\* What ts_out and price_out hold before a call.
Before == [ts |-> 7, price |-> 7]

\* C29: find_candidate returns true iff some entry other than the tail
\* meets the magnitude and the age condition, and then outputs the most
\* recent such entry; with fewer than 2 entries it returns false and
\* leaves the outputs unwritten.  Checked on both queues of every
\* reachable metric, for every argument of the model.
C29_FindCandidate ==
    \A q \in {self.min_q, self.max_q}, is_low \in BOOLEAN,
       current_price \in RevMids, now \in Nows,
       threshold \in {self.threshold}, min_age \in {self.min_recency} :
        LET r == Queue_find_candidate(q,
                     [current_price |-> current_price, threshold |-> threshold,
                      is_low |-> is_low, current_timestamp |-> now,
                      min_age |-> min_age], Before)
            M == Matching(q, current_price, threshold, is_low, now, min_age)
        IN  /\ r.found <=> M # {}
            /\ r.found => /\ r.ts = QEntry(q, MostRecent(M)).t
                          /\ r.price = QEntry(q, MostRecent(M)).p
            /\ q.size < 2 => ~r.found /\ r.ts = Before.ts /\ r.price = Before.price

\* The metric's own search on the high side passed over an entry that is
\* large enough but too young and took an older one.
C29_Witness ==
    /\ io.call = "update"
    /\ self.max_q.size >= 3
    /\ LET q == self.max_q
           a == [current_price |-> self.last_mid, threshold |-> self.threshold,
                 is_low |-> FALSE, current_timestamp |-> self.last_timestamp,
                 min_age |-> self.min_recency]
           r == Queue_find_candidate(q, a, Before)
       IN  /\ r.found
           /\ r.ts # QEntry(q, q.size - 2).t
           /\ QEntry(q, q.size - 2).p - self.last_mid >= self.threshold

\* The candidates of the current tick on the low and on the high side.
LowSet ==
    Matching(self.min_q, self.last_mid, self.threshold, TRUE,
             self.last_timestamp, self.min_recency)

HighSet ==
    Matching(self.max_q, self.last_mid, self.threshold, FALSE,
             self.last_timestamp, self.min_recency)

HasCandidate ==
    LowSet # {} \/ HighSet # {}

LowCandidate ==
    QEntry(self.min_q, MostRecent(LowSet))

HighCandidate ==
    QEntry(self.max_q, MostRecent(HighSet))

\* The newer of the two candidates, the low one on a tie.
ChosenReference ==
    IF LowSet # {} /\ HighSet # {}
    THEN IF LowCandidate.t >= HighCandidate.t THEN LowCandidate ELSE HighCandidate
    ELSE IF LowSet # {} THEN LowCandidate ELSE HighCandidate

\* C26: when the metric is flat and a reference candidate exists it opens
\* against the chosen reference: short iff mid - p_ref >= threshold, with
\* tp_price = mid - tp_distance and sl_price = mid + sl_distance; long iff
\* p_ref - mid >= threshold, with tp_price = mid + tp_distance and
\* sl_price = mid - sl_distance.
C26_OpensAgainstReference ==
    (io.call = "update" /\ io.flat /\ HasCandidate) =>
        /\ self.has_ref
        /\ self.p_ref = ChosenReference.p
        /\ self.p_ref_time = ChosenReference.t
        /\ self.position_open_time = self.last_timestamp
        /\ (self.position = -1) <=> (self.last_mid - self.p_ref >= self.threshold)
        /\ self.position = -1 =>
              /\ self.tp_price = self.last_mid - self.tp_distance
              /\ self.sl_price = self.last_mid + self.sl_distance
        /\ (self.position = 1) <=> (self.p_ref - self.last_mid >= self.threshold)
        /\ self.position = 1 =>
              /\ self.tp_price = self.last_mid + self.tp_distance
              /\ self.sl_price = self.last_mid - self.sl_distance

\* A flat metric found a low and a high candidate of the same timestamp
\* and opened short against the low one.
C26_Witness ==
    /\ io.call = "update"
    /\ io.flat
    /\ LowSet # {}
    /\ HighSet # {}
    /\ LowCandidate.t = HighCandidate.t
    /\ self.position = -1
    /\ self.p_ref = LowCandidate.p

\* The snapshot after the tick shows the opposite side of the snapshot
\* before it.
Flipped ==
    /\ io.call = "update"
    /\ io.before.position # 0
    /\ TR_value_dict(self).position = -io.before.position

\* C27: a single update can flatten and reopen in the opposite direction:
\* the snapshot's position is +1 after one tick and -1 after the very next
\* (C27_Witness is such an execution), with no snapshot of position 0 in
\* between.  Whenever consecutive snapshots show opposite sides, the update
\* between them flattened the metric and opened the new position itself:
\* it reached its last statement flat, the position is as old as the tick
\* and stands against a reference other than the previous one.
C27_FlipInOneUpdate ==
    Flipped =>
        /\ io.flat
        /\ self.position_open_time = self.last_timestamp
        /\ TR_value_dict(self).position_open_age_seconds = 0
        /\ TR_value_dict(self).reference_price # io.before.reference_price

\* Long after one tick and short after the next.
C27_Witness ==
    /\ Flipped
    /\ io.before.position = 1
    /\ self.position = -1

\* C28: after every update (threshold > 0) position is non-zero iff a
\* reference candidate exists for the current tick; when no candidate
\* exists the metric is flat and reference_price, tp_price and sl_price
\* are all NaN.
C28_PositionIffCandidate ==
    io.call = "update" =>
        LET snap == TR_value_dict(self)
        IN  /\ self.threshold > 0
            /\ (snap.position # 0) <=> HasCandidate
            /\ ~HasCandidate =>
                  /\ snap.position = 0
                  /\ snap.reference_price = NaN
                  /\ snap.tp_price = NaN
                  /\ snap.sl_price = NaN

\* A position was open before the tick, the tick has no candidate and the
\* metric is flat after it.
C28_Witness ==
    /\ io.call = "update"
    /\ io.before.position # 0
    /\ ~HasCandidate
    /\ self.position = 0
    /\ self.tp_price = NaN

\* C30: whenever the metric holds a reference, the reference lies inside
\* the lookback window: in every snapshot with position # 0,
\* reference_age_seconds <= lookback_seconds.
C30_ReferenceInWindow ==
    LET snap == TR_value_dict(self)
    IN  snap.position # 0 =>
            /\ snap.reference_age_seconds # NaN
            /\ snap.reference_age_seconds <= self.lookback_seconds

\* C31: in every state reachable by updates, position is -1, 0 or +1 and
\* these are equivalent: position # 0; a reference is set (reference_price
\* is not NaN); tp_price and sl_price are not NaN;
\* position_open_age_seconds is not NaN.
C31_OpenFieldsTogether ==
    LET snap == TR_value_dict(self)
    IN  /\ snap.position \in {-1, 0, 1}
        /\ (snap.position # 0) <=> (snap.reference_price # NaN)
        /\ (snap.position # 0) <=> (snap.tp_price # NaN /\ snap.sl_price # NaN)
        /\ (snap.position # 0) <=> (snap.tp_price # NaN \/ snap.sl_price # NaN)
        /\ (snap.position # 0) <=> (snap.position_open_age_seconds # NaN)

\* A position opened by a tick on a metric that was flat before it, after
\* earlier ticks.
C31_Witness ==
    /\ io.call = "update"
    /\ Len(io.ticks) >= 3
    /\ io.before.position = 0
    /\ self.position = 1
    /\ TR_value_dict(self).position_open_age_seconds = 0

\* C32: whenever position is non-zero after an update (threshold_pips >= 1,
\* non-decreasing timestamps) the held direction opposes the displacement
\* from the reference: position = +1 implies distance_from_reference < 0,
\* position = -1 implies distance_from_reference > 0, and
\* |distance_from_reference| >= threshold - pip_size / 10.
C32_DirectionOpposesDistance ==
    LET snap == TR_value_dict(self)
    IN  (io.call = "update" /\ snap.position # 0) =>
            /\ self.threshold >= self.pip_size
            /\ snap.distance_from_reference # NaN
            /\ snap.position = 1 => snap.distance_from_reference < 0
            /\ snap.position = -1 => snap.distance_from_reference > 0
            /\ 10 * Abs(snap.distance_from_reference)
                   >= 10 * self.threshold - self.pip_size

\* A long position kept by a tick whose distance from the reference is
\* a tenth of a pip short of the threshold.
C32_Witness ==
    /\ io.call = "update"
    /\ io.before.position = 1
    /\ self.position = 1
    /\ ~io.flat
    /\ 10 * TR_value_dict(self).distance_from_reference
           = self.pip_size - 10 * self.threshold

\* C33: in every snapshot with position # 0 (non-decreasing timestamps)
\* reference_age_seconds >= min_recency_seconds: a reference younger than
\* min_recency_seconds is never adopted and a held reference only ages.
C33_ReferenceOldEnough ==
    LET snap == TR_value_dict(self)
    IN  snap.position # 0 =>
            /\ snap.reference_age_seconds # NaN
            /\ snap.reference_age_seconds >= snap.min_recency_seconds
            /\ io.before.position = snap.position /\ ~io.flat =>
                  snap.reference_age_seconds >= io.before.reference_age_seconds

\* A metric with a minimum age of 2 s opened against a reference exactly
\* that old, passing over a younger entry of sufficient distance.
C33_Witness ==
    /\ io.call = "update"
    /\ io.flat
    /\ self.position = 1
    /\ self.min_recency = 2
    /\ TR_value_dict(self).reference_age_seconds = 2
    /\ self.max_q.size >= 3
    /\ QEntry(self.max_q, self.max_q.size - 2).p - self.last_mid >= self.threshold

\* ---- The running sums of the window (SpecWin) ----
\* seq[1] + ... + seq[n] of doubles, added from the first.
RECURSIVE SumSeq(_, _)
SumSeq(seq, n) ==
    IF n = 0 THEN Zero ELSE FAdd(SumSeq(seq, n - 1), seq[n])

\* The sums over the retained entries, with the dt each entry has now.
EntrySums ==
    LET e == self.entries
        n == Len(e)
    IN  [w |-> SumSeq([i \in 1..n |-> e[i].dt], n),
         x |-> SumSeq([i \in 1..n |-> FMul(e[i].dt, e[i].val)], n),
         x2 |-> SumSeq([i \in 1..n |-> FMul(FMul(e[i].dt, e[i].val), e[i].val)], n)]

\* C34: after any sequence of appends the running sums equal the sums
\* over the retained entries (sum_w = sum of dt, sum_x = sum of dt * x,
\* sum_x2 = sum of dt * x^2, with the shortened dt of a partially trimmed
\* head), except that all three are exactly 0 when |sum_w| < 1e-12;
\* stats() returns (NaN, NaN) iff sum_w <= 1e-12.
C34_RunningSums ==
    io.call = "append" =>
        /\ \/ /\ self.sum_w = EntrySums.w
              /\ self.sum_x = EntrySums.x
              /\ self.sum_x2 = EntrySums.x2
           \/ /\ FLt(fabs(EntrySums.w), EPS)
              /\ self.sum_w = Zero
              /\ self.sum_x = Zero
              /\ self.sum_x2 = Zero
        /\ (Window_stats(self) = <<NAN, NAN>>) <=> FLe(self.sum_w, EPS)

\* ---- The bookkeeping of the histogram (SpecHist) ----
\* The remaining durations end - start of the retained events of a bin.
Durations(bin_idx) ==
    LET InBin(ev) == ev.bin = bin_idx
        evs == SelectSeq(self.events, InBin)
    IN  [i \in DOMAIN evs |-> FSub(evs[i].end, evs[i].start)]

\* C35: after any sequence of add and trim calls, total equals the sum of
\* the weights over all bins, and every bin weight is >= 0 and equals the
\* summed remaining duration (end - start) of the retained events
\* assigned to that bin.
C35_HistogramWeights ==
    /\ self.total = SumSeq(self.weights, self.n_bins)
    /\ \A b \in 1..self.n_bins :
          /\ FLe(Zero, self.weights[b])
          /\ self.weights[b] = SumSeq(Durations(b - 1), Len(Durations(b - 1)))

\* ---- Shifted timestamps (SpecShift) ----
\* C36: the outputs of EWMAMetric and EWMASlopeMetric depend only on
\* prices and on differences between tick timestamps: shifting every
\* timestamp by the same constant leaves every emitted ewma and slope
\* unchanged, whether or not initial_value is supplied.
C36_ShiftInvariant ==
    /\ self.ewma_shifted.value = self.ewma.value
    /\ self.slope_shifted.value = self.slope.value
    /\ self.slope_shifted.slope = self.slope.slope

\* C37: DataFeed.tick() never reads a row index outside the loaded file:
\* whenever it builds a TickRecord the index i satisfies 0 <= i < _row_count,
\* also when a month file has zero rows.
C37_RowInBounds ==
    io.call \in {"tick", "crash"} => (0 <= io.i /\ io.i < io.row_count)

\* ====================================================================
\* More properties of the volatility metric (SpecVol)
\* ====================================================================
\* C38: from the second tick onward vol_percentile is never NaN and lies
\* in [0, 1], the histogram total after add-then-trim being > 0;
\* vol_percentile is NaN only before the second tick.
C38_PercentileRange ==
    IF Len(io.ticks) >= 2
    THEN /\ FLt(Zero, self.hist.total)
         /\ self.pct # NAN
         /\ FLe(Zero, self.pct) /\ FLe(self.pct, Num(1))
    ELSE self.pct = NAN

\* ====================================================================
\* Properties of the ring buffers (SpecRing)
\* ====================================================================
\* The slots of a ring as entries.
RingSlots(r) ==
    IF "slots" \in DOMAIN r THEN r.slots
    ELSE [k \in 1..r.capacity |-> [ts |-> r.times[k], price |-> r.prices[k]]]

\* The entries of a ring from head to tail.
RingSeq(r) ==
    [i \in 1..r.size |-> RingSlots(r)[((r.head + i - 1) % r.capacity) + 1]]

\* Entry a is entry b, or what trim has left of b at the head.
LeftOf(a, b) ==
    \/ a = b
    \/ /\ "dt" \in DOMAIN a
       /\ a.val = b.val /\ a.ts > b.ts /\ a.ts + a.dt = b.ts + b.dt
    \/ /\ "bin" \in DOMAIN a
       /\ a.bin = b.bin /\ a.start > b.start /\ a.end = b.end

\* The entries kept are those of before, in order, from some entry on.
Kept(kept, before) ==
    LET k == Len(before) - Len(kept)
    IN  /\ k >= 0
        /\ \A i \in 1..Len(kept) :
              IF i = 1 THEN LeftOf(kept[i], before[i + k]) ELSE kept[i] = before[i + k]

\* C39: for each ring buffer, after any sequence of operations
\* 0 <= size <= capacity and 0 <= head < capacity; the capacity never
\* decreases and at least doubles when an append finds the buffer full;
\* growth preserves the head-to-tail order and contents of the retained
\* entries.
C39_RingBuffers ==
    /\ 0 <= self.size /\ self.size <= self.capacity
    /\ 0 <= self.head /\ self.head < self.capacity
    /\ self.capacity >= io.before.capacity
    /\ (io.call = "append" /\ io.before.size = io.before.capacity)
          => self.capacity >= 2 * io.before.capacity
    /\ self.capacity > io.before.capacity
          => Kept(RingSeq(self), RingSeq(io.before) \o io.entry)

\* A full window whose head had wrapped has grown and holds one entry
\* more.
C39_Witness ==
    /\ IsWindowRing
    /\ io.call = "append"
    /\ io.before.size = io.before.capacity
    /\ io.before.head # 0
    /\ self.capacity = 2 * io.before.capacity
    /\ self.size = io.before.size + 1
    /\ C39_RingBuffers

====
